---- MODULE Spec2Model ----
(***************************************************************************)
(* PDK.io token lifecycle: the SQLite token store (TokenManager), the      *)
(* tiered credential lookup (PDKAuth.get_valid_tokens) and the browser-    *)
(* emulating login flow (PDKAuth._perform_login), for the production       *)
(* variant (pdk_io_endpoints/auth.py) and the refresh-token variant        *)
(* (pdk_io_endpoints/betaAuth.py).                                         *)
(*                                                                         *)
(* Time is counted in minutes.  A timestamp is stored by SQLite as an ISO  *)
(* string of fixed layout, whose string order is the order of the instants *)
(* it denotes; the model keeps the instant.                                *)
(*                                                                         *)
(* A token is an opaque string to the program.  The model names the token  *)
(* the remote platform issues to session c at time t <<kind, c, t>>, and   *)
(* the system token minted for bearer b at time t <<"sys", b, t>>, so that *)
(* the issue time and the bearer of a stored token can be read back.       *)
(***************************************************************************)
EXTENDS Integers, Sequences, FiniteSets, TLC

VARIABLES
    variant,   \* "prod" (auth.py) or "beta" (betaAuth.py): which module runs
    now,       \* the wall clock, in minutes
    tokens,    \* the rows of table tokens of token.db
    pc,        \* per caller: where its get_valid_tokens call stands
    loc,       \* per caller: the local variables of the call
    trace,     \* per caller: what the current call did so far, in order
    result,    \* per caller: the dict the call returned
    err,       \* per caller: the exception the call raised ("" if none)
    written,   \* the last store_tokens call that committed: its dict, its
               \* time, its caller and the rows it replaced
    api,       \* the BaseAPI object of process 1: its auth_data and what
               \* its current or last invocation did
    lastReturn, \* the sequential program: the dict the last successful call
               \* handed to it, and when
    cmd,       \* the device endpoint object of process 1 and what its
               \* current or last command call did
    gate_activity, \* the rows of table gate_activity of token.db, in the
               \* order inserted
    postman,   \* the PostmanCollectionChecker script: where its
               \* compare_collections call stands and what it did
    collections, \* the rows of table collections of collections.db, in the
               \* order inserted
    lister,    \* the listing endpoint objects of process 1 and what their
               \* current or last call did
    cloud_nodes, \* the rows of table cloud_nodes of token.db
    devices    \* the rows of table devices of token.db

(* the state of the collection checker, and of the resource caches *)
postmanVars == <<postman, collections>>
cacheVars == <<lister, cloud_nodes, devices>>

vars == <<variant, now, tokens, pc, loc, trace, result, err, written, api, lastReturn,
         cmd, gate_activity, postman, collections, lister, cloud_nodes, devices>>

-----------------------------------------------------------------------------
(* Bounds of the model *)

MaxMinutes == 5      \* minute ticks the clock takes within a 30-day period
MaxJumps == 1        \* 30-day jumps the clock takes (TokenManager runs only)

(* Program constants *)

AuthTokenTTL == 5        \* timedelta(minutes=5)
SystemTokenTTL == 5      \* timedelta(minutes=5)
RefreshTokenTTLDays == 30 \* timedelta(days=30)
RefreshTokenTTL == RefreshTokenTTLDays * 24 * 60

(* Two processes call get_valid_tokens on the one token.db: the source     *)
(* holds no lock around the read-decide-write sequence.                    *)
Callers == {1, 2}
SystemId == "sysA"                 \* USER_CONFIG["system_id"]
Accounts == {"sysA", "sysB"}       \* system ids a token.db may hold rows for
Variants == {"prod", "beta"}
Beta == variant = "beta"

NULL == <<>>                       \* Python None / SQL NULL
NoResult == [pending |-> TRUE]     \* the call has not returned a dict

-----------------------------------------------------------------------------
(* Values the remote platform hands out *)

IdToken(c, t) == <<"id", c, t>>
AccessToken(c, t) == <<"access", c, t>>
RefreshToken(c, t) == <<"refresh", c, t>>
SysToken(bearer, t) == <<"sys", bearer, t>>
Nonce(c, t) == <<"nonce", c, t>>
IssuedAt(tok) == tok[3]

(* dict.get(k): None for a missing key *)
Get(d, k) == IF k \in DOMAIN d THEN d[k] ELSE NULL

(* Python truthiness of an optional string / row *)
Truthy(v) == v # NULL

-----------------------------------------------------------------------------
(* TokenManager: the table and its four operations *)

(* Column positions of a row, in the order of CREATE TABLE.                *)
(*   prod: system_id, auth_token, access_token, system_token, auth_nonce,   *)
(*         auth_token_expiry, system_token_expiry, last_updated             *)
(*   beta: system_id, auth_token, access_token, system_token,               *)
(*         refresh_token, auth_nonce, auth_token_expiry,                    *)
(*         system_token_expiry, refresh_token_expiry, last_updated          *)
ColumnsOf(v) ==
    IF v = "beta"
    THEN <<"system_id", "auth_token", "access_token", "system_token",
           "refresh_token", "auth_nonce", "auth_token_expiry",
           "system_token_expiry", "refresh_token_expiry", "last_updated">>
    ELSE <<"system_id", "auth_token", "access_token", "system_token",
           "auth_nonce", "auth_token_expiry", "system_token_expiry",
           "last_updated">>

ColIndex(v, name) == CHOOSE i \in 1..Len(ColumnsOf(v)) : ColumnsOf(v)[i] = name

Col(row, name) == row[ColIndex(variant, name)]

HasColumn(name) == \E i \in 1..Len(ColumnsOf(variant)) : ColumnsOf(variant)[i] = name

(* Mutant of ExpiryAt: the row expires a minute early *)
ExpiryAt_Early(t, ttl) == t + ttl - 1

(* store_tokens: the expiries are computed from the time of the write *)
ExpiryAt(t, ttl) == t + ttl

(* store_tokens: the tuple bound to the INSERT's placeholders *)
NewRow(auth_data, t) ==
    IF Beta
    THEN << auth_data["current_system_id"],
            Get(auth_data, "auth_token"),
            Get(auth_data, "access_token"),
            Get(auth_data, "system_token"),
            Get(auth_data, "refresh_token"),
            Get(auth_data, "auth_nonce"),
            ExpiryAt(t, AuthTokenTTL),
            ExpiryAt(t, SystemTokenTTL),
            ExpiryAt(t, RefreshTokenTTL),
            t >>
    ELSE << auth_data["current_system_id"],
            auth_data["auth_token"],
            auth_data["access_token"],
            auth_data["system_token"],
            auth_data["auth_nonce"],
            ExpiryAt(t, AuthTokenTTL),
            ExpiryAt(t, SystemTokenTTL),
            t >>

(* Mutant of InsertOrReplace: an upsert that keeps, for every column the    *)
(* new row leaves NULL, the value of the row it replaces                   *)
InsertOrReplace_Coalesce(table, row) ==
    LET olds == {r \in table : r[1] = row[1]}
        merged == IF olds = {} THEN row
                  ELSE LET old == CHOOSE r \in olds : TRUE
                       IN  [i \in 1..Len(row) |->
                              IF /\ ColumnsOf(variant)[i] \in
                                      {"auth_token", "access_token", "system_token",
                                       "refresh_token", "auth_nonce"}
                                 /\ row[i] = <<>>
                              THEN old[i] ELSE row[i]]
    IN  {r \in table : r[1] # row[1]} \cup {merged}

(* Mutant of InsertOrReplace: INSERT OR IGNORE, the first row of a key stays *)
InsertOrReplace_Ignore(table, row) ==
    IF \E r \in table : r[1] = row[1] THEN table ELSE table \cup {row}

(* Mutant of InsertOrReplace: a plain append, as on a table with no key *)
InsertOrReplace_Append(table, row) == table \cup {row}

(* INSERT OR REPLACE on a table whose PRIMARY KEY is system_id: the row of *)
(* the same key, if any, is deleted and the new row inserted               *)
InsertOrReplace(table, row) ==
    {r \in table : r[1] # row[1]} \cup {row}

(* Mutant of store_tokens: the statement runs and nothing is committed *)
store_tokens_NoCommit(table, auth_data, t) == table

(* TokenManager.store_tokens: one INSERT OR REPLACE of the row built from  *)
(* auth_data and the current time, then commit                             *)
store_tokens(table, auth_data, t) == InsertOrReplace(table, NewRow(auth_data, t))

(* Mutant of NotExpired: the comparison made inclusive *)
NotExpired_Inclusive(expiry, t) == expiry >= t

(* WHERE <expiry column> > ? *)
NotExpired(expiry, t) == expiry > t

(* cursor.fetchone() of SELECT ... WHERE system_id = ? AND <col> > ? *)
SelectValid(table, system_id, expiry_col, t) ==
    LET hits == {r \in table : r[1] = system_id /\ NotExpired(Col(r, expiry_col), t)}
    IN  IF hits = {} THEN NULL ELSE CHOOSE r \in hits : TRUE

TM_get_valid_tokens(table, system_id, t) ==
    SelectValid(table, system_id, "system_token_expiry", t)

(* Mutant of TM_get_valid_auth_token: the identity token is read whatever  *)
(* its expiry                                                              *)
TM_get_valid_auth_token_Unexpiring(table, system_id, t) ==
    LET rows == {r \in table : r[1] = system_id}
    IN  IF rows # {} THEN Col(CHOOSE r \in rows : TRUE, "auth_token") ELSE NULL

TM_get_valid_auth_token(table, system_id, t) ==
    LET r == SelectValid(table, system_id, "auth_token_expiry", t)
    IN  IF r # NULL THEN Col(r, "auth_token") ELSE NULL

TM_get_valid_refresh_token(table, system_id, t) ==
    LET r == SelectValid(table, system_id, "refresh_token_expiry", t)
    IN  IF r # NULL THEN Col(r, "refresh_token") ELSE NULL

RowsOf(table, system_id) == {r \in table : r[1] = system_id}

NoWrite == [by |-> 0]

(* no BaseAPI object constructed yet *)
NoApi ==
    [phase |-> "new", auth_data |-> NULL, events |-> <<>>, bearer |-> NULL,
     status |-> 0, outcome |-> "", value |-> NULL]

(* the program has not been handed a credential set yet *)
NoReturn == [at |-> -1]

(* the collection checker is not running: tries counts the invocations of  *)
(* fetch_collection's body by the retry wrapper, requests the HTTP         *)
(* requests sent, log the messages logged, in order                        *)
NoPostman ==
    [phase |-> "idle", tries |-> 0, requests |-> 0, current_data |-> NULL,
     log |-> <<>>, outcome |-> ""]

(* a decoded JSON body: a list of objects, or an object that is no list;  *)
(* NoBody when nothing was decoded                                         *)
ListBody(items) == [type |-> "list", items |-> items]
DictBody == [type |-> "dict", items |-> <<>>]
NoBody == [type |-> "none", items |-> <<>>]

(* no listing endpoint object constructed yet; calls counts the listing    *)
(* calls made, received is what self.get returned to the current or last   *)
(* call                                                                    *)
NoLister ==
    [phase |-> "new", endpoint |-> "", cloud_node_id |-> "", calls |-> 0,
     received |-> NoBody, outcome |-> "", err |-> ""]

(* no device endpoint object constructed yet; a dwell argument is <<n>>,   *)
(* and <<>> when the argument is None; body is the dict built for the      *)
(* request body, bearer the token of a request that was sent, remote       *)
(* whether the platform answers the command's request with success (would  *)
(* answer, when the request is never sent)                                 *)
NoCmd ==
    [endpoint |-> "", phase |-> "new", auth_data |-> NULL, command |-> "",
     dwell |-> NULL, events |-> <<>>, bearer |-> NULL, body |-> NULL,
     remote |-> "", outcome |-> "", err |-> ""]

(* a store_tokens call that commits *)
Store(c, auth_data) ==
    /\ tokens' = store_tokens(tokens, auth_data, now)
    /\ written' = [by |-> c, data |-> auth_data, at |-> now,
                   replaced |-> RowsOf(tokens, auth_data["current_system_id"])]

-----------------------------------------------------------------------------
(* PDKAuth: what the remote platform may answer.  Every request may also   *)
(* raise (requests.exceptions.RequestException: no connection, a timeout). *)

RAISE == [kind |-> "raise", status |-> 0, token |-> NULL, token2 |-> NULL]
Resp(status, token, token2) ==
    [kind |-> "resp", status |-> status, token |-> token, token2 |-> token2]

(* the system-token endpoint, asked with Authorization: Bearer <bearer> *)
SystemTokenResponses(bearer, t) ==
    { RAISE,
      Resp(200, SysToken(bearer, t), NULL),
      Resp(200, NULL, NULL),
      Resp(401, NULL, NULL) }

(* GET /auth/refresh: cookies idToken (token) and refreshToken (token2) *)
RefreshResponses(c, t) ==
    { RAISE,
      Resp(200, IdToken(c, t), RefreshToken(c, t)),
      Resp(200, IdToken(c, t), NULL),
      Resp(200, NULL, NULL),
      Resp(401, NULL, NULL) }

(* POST /auth/local *)
LoginResponses ==
    { RAISE, Resp(200, NULL, NULL), Resp(204, NULL, NULL),
      Resp(401, NULL, NULL), Resp(429, NULL, NULL) }

(* GET /profile, GET /auth/local: only the cookies matter to the flow *)
PlainResponses == { RAISE, Resp(200, NULL, NULL), Resp(401, NULL, NULL) }

(* GET /oauth2/auth: the status and the Location header ("" when missing) *)
Redirect(kind, status, location) ==
    [kind |-> kind, status |-> status, location |-> location]
AuthorizeResponses ==
    { Redirect("raise", 0, ""),
      Redirect("resp", 302, "https://accounts.pdk.io/interaction/abc123"),
      Redirect("resp", 302, ""),
      Redirect("resp", 200, "") }

(* Mutant of LastSegment: location.split('/')[0] *)
LastSegment_First(location) ==
    IF location = "https://accounts.pdk.io/interaction/abc123" THEN "https:" ELSE ""

(* location.split('/')[-1] *)
LastSegment(location) ==
    IF location = "https://accounts.pdk.io/interaction/abc123" THEN "abc123" ELSE ""

(* GET /interaction/<id> *)
RedirectResponses == { RAISE, Resp(302, NULL, NULL), Resp(200, NULL, NULL) }

(* GET /oauth2/auth/<id>, production: the Location of the 302 is the       *)
(* callback URL; its fragment is given by what parsing it yields:          *)
(* "none" (no '#'), "malformed" (a parameter that is no key=value pair:    *)
(* dict() raises ValueError), or "params" with id_token (token) and        *)
(* access_token (token2), each possibly missing                            *)
Frag(kind, id_token, access_token) ==
    [kind |-> "resp", status |-> 302, frag |-> kind,
     token |-> id_token, token2 |-> access_token]
FragmentResponses(c, t) ==
    { [kind |-> "raise", status |-> 0, frag |-> "none", token |-> NULL, token2 |-> NULL],
      [kind |-> "resp", status |-> 200, frag |-> "none", token |-> NULL, token2 |-> NULL],
      Frag("none", NULL, NULL),
      Frag("malformed", NULL, NULL),
      Frag("params", NULL, AccessToken(c, t)),
      Frag("params", IdToken(c, t), NULL),
      Frag("params", IdToken(c, t), AccessToken(c, t)) }

(* GET <callback url>, beta: cookies idToken (token), refreshToken (token2) *)
CallbackResponses(c, t) ==
    { RAISE,
      Resp(302, IdToken(c, t), RefreshToken(c, t)),
      Resp(307, IdToken(c, t), RefreshToken(c, t)),
      Resp(302, IdToken(c, t), NULL),
      Resp(302, NULL, NULL),
      Resp(200, IdToken(c, t), RefreshToken(c, t)) }

(* refresh_system_token, after the request returned: the system token or  *)
(* None.  prod reads response.json().get('token'), beta the systemToken    *)
(* cookie; both only of a 200                                              *)
refresh_system_token(resp) ==
    IF resp.status = 200
    THEN (IF Truthy(resp.token) THEN resp.token ELSE NULL)
    ELSE NULL

-----------------------------------------------------------------------------
(* PDKAuth.get_valid_tokens, one action per store operation and request *)

NoLocals ==
    [auth_token |-> NULL, access_token |-> NULL, system_token |-> NULL,
     refresh_token |-> NULL, auth_nonce |-> NULL, interaction_id |-> "",
     profile_status |-> 0]

Goto(c, p, evs, newloc) ==
    /\ pc' = [pc EXCEPT ![c] = p]
    /\ trace' = [trace EXCEPT ![c] = @ \o evs]
    /\ loc' = [loc EXCEPT ![c] = newloc]
    /\ UNCHANGED <<result, err>>

Raise(c, e, evs) ==
    /\ pc' = [pc EXCEPT ![c] = "failed"]
    /\ trace' = [trace EXCEPT ![c] = @ \o evs]
    /\ loc' = [loc EXCEPT ![c] = NoLocals]
    /\ err' = [err EXCEPT ![c] = e]
    /\ UNCHANGED result

Return(c, d, evs) ==
    /\ pc' = [pc EXCEPT ![c] = "done"]
    /\ trace' = [trace EXCEPT ![c] = @ \o evs]
    /\ loc' = [loc EXCEPT ![c] = NoLocals]
    /\ result' = [result EXCEPT ![c] = d]
    /\ UNCHANGED err

(* the first request of login(): beta starts with two unauthenticated GETs *)
LoginEntry == IF Beta THEN "pl_profile0" ELSE "pl_submit"

(* Mutant of AfterTier1: a miss of Step 1 goes straight to the login *)
AfterTier1_StraightToLogin == LoginEntry

(* where get_valid_tokens goes on after Step 1, 2 and 3 did not return *)
AfterTier1 == "t2"
AfterTier2 == IF Beta THEN "t3" ELSE LoginEntry
AfterTier3 == LoginEntry

(* Mutant of Tier1Result: the identity token and the access token are read *)
(* from each other's position                                              *)
Tier1Result_Swapped(row) ==
    IF Beta
    THEN [current_system_id |-> row[1], auth_token |-> row[3],
          access_token |-> row[2], system_token |-> row[4],
          refresh_token |-> row[5], auth_nonce |-> row[6]]
    ELSE [current_system_id |-> row[1], auth_token |-> row[3],
          access_token |-> row[2], system_token |-> row[4],
          auth_nonce |-> row[5]]

(* Mutant of Tier1Result: the nonce is read one position early, which in   *)
(* the beta table is the refresh token and in production the system token *)
Tier1Result_NonceOffByOne(row) ==
    IF Beta
    THEN [current_system_id |-> row[1], auth_token |-> row[2],
          access_token |-> row[3], system_token |-> row[4],
          refresh_token |-> row[5], auth_nonce |-> row[5]]
    ELSE [current_system_id |-> row[1], auth_token |-> row[2],
          access_token |-> row[3], system_token |-> row[4],
          auth_nonce |-> row[4]]

(* the dict built from a row that SELECT * returned, by position *)
Tier1Result(row) ==
    IF Beta
    THEN [current_system_id |-> row[1], auth_token |-> row[2],
          access_token |-> row[3], system_token |-> row[4],
          refresh_token |-> row[5], auth_nonce |-> row[6]]
    ELSE [current_system_id |-> row[1], auth_token |-> row[2],
          access_token |-> row[3], system_token |-> row[4],
          auth_nonce |-> row[5]]

(* Mutant of Tier2AuthData: Step 2 stores the new system token without    *)
(* the identity token it was obtained with                                 *)
Tier2AuthData_NoIdentity(auth_token, system_token) ==
    IF Beta
    THEN [current_system_id |-> SystemId, system_token |-> system_token]
    ELSE [current_system_id |-> SystemId, auth_token |-> NULL,
          access_token |-> NULL, system_token |-> system_token,
          auth_nonce |-> NULL]

(* the dict Step 2 stores and returns *)
Tier2AuthData(auth_token, system_token) ==
    IF Beta
    THEN [current_system_id |-> SystemId, auth_token |-> auth_token,
          system_token |-> system_token]
    ELSE [current_system_id |-> SystemId, auth_token |-> auth_token,
          access_token |-> NULL, system_token |-> system_token,
          auth_nonce |-> NULL]

(* the dict refresh_tokens stores and returns *)
Tier3AuthData(l) ==
    [current_system_id |-> SystemId, auth_token |-> l.auth_token,
     refresh_token |-> l.refresh_token, system_token |-> l.system_token]

(* the dict _perform_login returns *)
LoginAuthData(l) ==
    IF Beta
    THEN [current_system_id |-> SystemId, auth_token |-> l.auth_token,
          refresh_token |-> l.refresh_token, system_token |-> l.system_token]
    ELSE [current_system_id |-> SystemId, auth_nonce |-> l.auth_nonce,
          auth_token |-> l.auth_token, access_token |-> l.access_token,
          system_token |-> l.system_token]

(* Scheduling.  An ended call is handed over before anything else happens  *)
(* (Settled).  A request blocks its caller and touches neither token.db    *)
(* nor the other process, so it commutes with every step of the other      *)
(* process: a caller that stands before a request (LocalPcs) runs on to    *)
(* its next store operation before the other process or the clock moves.   *)
(* The clock moves while callers stand before store operations.            *)
Ended(c) == pc[c] \in {"done", "failed", "exited"}
Settled == \A c \in Callers : pc[c] \notin {"done", "failed", "exited"}

LocalPcs ==
    {"t2_exchange", "rt_request", "rt_mint", "pl_profile0", "pl_localcheck",
     "pl_submit", "pl_profile", "pl_authorize", "pl_interaction1",
     "pl_interaction2", "pl_callback", "pl_mint"}

Turn(c) == Settled /\ \A d \in Callers \ {c} : pc[d] \notin LocalPcs

(* get_valid_tokens is called (BaseAPI._refresh_if_needed, main) *)
StartCall(c) ==
    /\ pc[c] = "idle"
    /\ Turn(c)
    /\ pc' = [pc EXCEPT ![c] = "t1"]
    /\ trace' = [trace EXCEPT ![c] = <<>>]
    /\ loc' = [loc EXCEPT ![c] = NoLocals]
    /\ result' = [result EXCEPT ![c] = NoResult]
    /\ err' = [err EXCEPT ![c] = ""]
    /\ UNCHANGED <<cmd, gate_activity, lastReturn, api, postmanVars, cacheVars, variant, now, tokens, written>>

(* Step 1: token_manager.get_valid_tokens(self.system_id) *)
GVT_Tier1(c) ==
    /\ pc[c] = "t1"
    /\ Turn(c)
    /\ \E dbok \in BOOLEAN :
         LET row == TM_get_valid_tokens(tokens, SystemId, now) IN
         IF ~dbok THEN Raise(c, "sqlite3.Error", <<"db_error">>)
         ELSE IF Truthy(row) THEN Return(c, Tier1Result(row), <<"tier1_hit">>)
         ELSE Goto(c, AfterTier1, <<"tier1_miss">>, loc[c])
    /\ UNCHANGED <<cmd, gate_activity, lastReturn, api, postmanVars, cacheVars, variant, now, tokens, written>>

(* Step 2: token_manager.get_valid_auth_token(self.system_id) *)
GVT_Tier2Lookup(c) ==
    /\ pc[c] = "t2"
    /\ Turn(c)
    /\ \E dbok \in BOOLEAN :
         LET auth_token == TM_get_valid_auth_token(tokens, SystemId, now) IN
         IF ~dbok THEN Raise(c, "sqlite3.Error", <<"db_error">>)
         ELSE IF Truthy(auth_token)
              THEN Goto(c, "t2_exchange", <<"tier2_hit">>,
                        [loc[c] EXCEPT !.auth_token = auth_token])
         ELSE Goto(c, AfterTier2, <<"tier2_miss">>, loc[c])
    /\ UNCHANGED <<cmd, gate_activity, lastReturn, api, postmanVars, cacheVars, variant, now, tokens, written>>

(* Step 2: self.refresh_system_token(auth_token); nothing catches what the *)
(* request raises before get_valid_tokens' own except, which re-raises     *)
GVT_Tier2Exchange(c) ==
    /\ pc[c] = "t2_exchange"
    /\ Turn(c)
    /\ \E resp \in SystemTokenResponses(loc[c].auth_token, now) :
         LET system_token == refresh_system_token(resp) IN
         IF resp.kind = "raise"
         THEN Raise(c, "RequestException", <<"req_tier2_exchange", "tier2_raised">>)
         ELSE IF Truthy(system_token)
              THEN Goto(c, "t2_store", <<"req_tier2_exchange">>,
                        [loc[c] EXCEPT !.system_token = system_token])
         ELSE Goto(c, AfterTier2, <<"req_tier2_exchange", "tier2_failed">>, NoLocals)
    /\ UNCHANGED <<cmd, gate_activity, lastReturn, api, postmanVars, cacheVars, variant, now, tokens, written>>

(* Step 2: self.token_manager.store_tokens(auth_data); return auth_data *)
GVT_Tier2Store(c) ==
    /\ pc[c] = "t2_store"
    /\ Turn(c)
    /\ \E dbok \in BOOLEAN :
         LET auth_data == Tier2AuthData(loc[c].auth_token, loc[c].system_token) IN
         IF ~dbok
         THEN /\ Raise(c, "sqlite3.Error", <<"db_error">>)
              /\ UNCHANGED <<tokens, written>>
         ELSE /\ Store(c, auth_data)
              /\ Return(c, auth_data, <<"store_tokens">>)
    /\ UNCHANGED <<cmd, gate_activity, lastReturn, api, postmanVars, cacheVars, variant, now>>

(* Step 3: token_manager.get_valid_refresh_token(self.system_id) *)
GVT_Tier3Lookup(c) ==
    /\ pc[c] = "t3"
    /\ Turn(c)
    /\ \E dbok \in BOOLEAN :
         LET refresh_token == TM_get_valid_refresh_token(tokens, SystemId, now) IN
         IF ~dbok THEN Raise(c, "sqlite3.Error", <<"db_error">>)
         ELSE IF Truthy(refresh_token)
              THEN Goto(c, "rt_read", <<"tier3_hit">>,
                        [loc[c] EXCEPT !.refresh_token = refresh_token])
         ELSE Goto(c, AfterTier3, <<"tier3_miss">>, loc[c])
    /\ UNCHANGED <<cmd, gate_activity, lastReturn, api, postmanVars, cacheVars, variant, now, tokens, written>>

(* refresh_tokens returned None: Step 3 logs the failure and falls to Step 4 *)
Tier3Failed(c, evs) == Goto(c, AfterTier3, evs \o <<"tier3_failed">>, NoLocals)

(* refresh_tokens: current_id_token = get_valid_auth_token(...), which only *)
(* goes into the Cookie header.  The whole body is inside try/except        *)
(* Exception: return None, so a database error here is swallowed            *)
RT_ReadIdToken(c) ==
    /\ pc[c] = "rt_read"
    /\ Turn(c)
    /\ \E dbok \in BOOLEAN :
         IF ~dbok THEN Tier3Failed(c, <<"db_error">>)
         ELSE Goto(c, "rt_request", <<>>, loc[c])
    /\ UNCHANGED <<cmd, gate_activity, lastReturn, api, postmanVars, cacheVars, variant, now, tokens, written>>

(* refresh_tokens: GET /auth/refresh *)
RT_Request(c) ==
    /\ pc[c] = "rt_request"
    /\ Turn(c)
    /\ \E resp \in RefreshResponses(c, now) :
         IF resp.kind = "raise" THEN Tier3Failed(c, <<"req_refresh">>)
         ELSE IF resp.status = 200 /\ Truthy(resp.token)
              THEN Goto(c, "rt_mint", <<"req_refresh">>,
                        [loc[c] EXCEPT
                           !.auth_token = resp.token,
                           !.refresh_token =
                               IF Truthy(resp.token2) THEN resp.token2 ELSE @])
         ELSE Tier3Failed(c, <<"req_refresh">>)
    /\ UNCHANGED <<cmd, gate_activity, lastReturn, api, postmanVars, cacheVars, variant, now, tokens, written>>

(* refresh_tokens: self.refresh_system_token(new_id_token) *)
RT_Mint(c) ==
    /\ pc[c] = "rt_mint"
    /\ Turn(c)
    /\ \E resp \in SystemTokenResponses(loc[c].auth_token, now) :
         LET system_token == refresh_system_token(resp) IN
         IF resp.kind = "raise" THEN Tier3Failed(c, <<"req_refresh_mint">>)
         ELSE IF Truthy(system_token)
              THEN Goto(c, "rt_store", <<"req_refresh_mint">>,
                        [loc[c] EXCEPT !.system_token = system_token])
         ELSE Tier3Failed(c, <<"req_refresh_mint">>)
    /\ UNCHANGED <<cmd, gate_activity, lastReturn, api, postmanVars, cacheVars, variant, now, tokens, written>>

(* refresh_tokens: self.token_manager.store_tokens(auth_data), still inside *)
(* the try: a database error makes refresh_tokens return None               *)
RT_Store(c) ==
    /\ pc[c] = "rt_store"
    /\ Turn(c)
    /\ \E dbok \in BOOLEAN :
         IF ~dbok
         THEN /\ Tier3Failed(c, <<"db_error">>)
              /\ UNCHANGED <<tokens, written>>
         ELSE /\ Store(c, Tier3AuthData(loc[c]))
              /\ Goto(c, "t3_store", <<"store_tokens">>, loc[c])
    /\ UNCHANGED <<cmd, gate_activity, lastReturn, api, postmanVars, cacheVars, variant, now>>

(* Step 3: self.token_manager.store_tokens(auth_data); return auth_data *)
GVT_Tier3Store(c) ==
    /\ pc[c] = "t3_store"
    /\ Turn(c)
    /\ \E dbok \in BOOLEAN :
         IF ~dbok
         THEN /\ Raise(c, "sqlite3.Error", <<"db_error">>)
              /\ UNCHANGED <<tokens, written>>
         ELSE /\ Store(c, Tier3AuthData(loc[c]))
              /\ Return(c, Tier3AuthData(loc[c]), <<"store_tokens">>)
    /\ UNCHANGED <<cmd, gate_activity, lastReturn, api, postmanVars, cacheVars, variant, now>>

-----------------------------------------------------------------------------
(* PDKAuth._perform_login.  Whatever a request raises leaves the flow as    *)
(* the exception; so does the final raise Exception("Failed to complete     *)
(* authentication flow") that every unexpected answer falls through to      *)

(* Mutant of FlowFailed: a failed flow is started again *)
FlowFailed_Retry(c, evs) == Goto(c, LoginEntry, evs, NoLocals)

FlowFailed(c, evs) == Raise(c, "Exception", evs \o <<"flow_failed">>)

(* beta Step 1: GET /profile, expected to be unauthorized; status not read *)
PL_InitialProfile(c) ==
    /\ pc[c] = "pl_profile0"
    /\ Turn(c)
    /\ \E resp \in PlainResponses :
         IF resp.kind = "raise" THEN FlowFailed(c, <<"req_initial_profile">>)
         ELSE Goto(c, "pl_localcheck", <<"req_initial_profile">>, loc[c])
    /\ UNCHANGED <<cmd, gate_activity, lastReturn, api, postmanVars, cacheVars, variant, now, tokens, written>>

(* beta Step 2: GET /auth/local; status not read *)
PL_LocalCheck(c) ==
    /\ pc[c] = "pl_localcheck"
    /\ Turn(c)
    /\ \E resp \in PlainResponses :
         IF resp.kind = "raise" THEN FlowFailed(c, <<"req_local_check">>)
         ELSE Goto(c, "pl_submit", <<"req_local_check">>, loc[c])
    /\ UNCHANGED <<cmd, gate_activity, lastReturn, api, postmanVars, cacheVars, variant, now, tokens, written>>

(* what the credential submission does with the status of its answer:      *)
(* "exit" is prod's exit() on 429, which raises SystemExit                  *)
SubmitOutcome(status) ==
    IF status = 429 THEN (IF Beta THEN "raise" ELSE "exit")
    ELSE IF status # 200 THEN "raise"
    ELSE "continue"

(* POST /auth/local with email and password *)
PL_Submit(c) ==
    /\ pc[c] = "pl_submit"
    /\ Turn(c)
    /\ \E resp \in LoginResponses :
         IF resp.kind = "raise" THEN FlowFailed(c, <<"req_login">>)
         ELSE IF SubmitOutcome(resp.status) = "exit"
              THEN /\ pc' = [pc EXCEPT ![c] = "exited"]
                   /\ trace' = [trace EXCEPT ![c] = @ \o <<"req_login", "rate_limited">>]
                   /\ loc' = [loc EXCEPT ![c] = NoLocals]
                   /\ err' = [err EXCEPT ![c] = "SystemExit"]
                   /\ UNCHANGED result
         ELSE IF SubmitOutcome(resp.status) = "raise"
              THEN Raise(c, "Exception",
                         <<"req_login">> \o
                         (IF resp.status = 429 THEN <<"rate_limited">> ELSE <<>>)
                         \o <<"flow_failed">>)
         ELSE Goto(c, "pl_profile", <<"req_login">>, loc[c])
    /\ UNCHANGED <<cmd, gate_activity, lastReturn, api, postmanVars, cacheVars, variant, now, tokens, written>>

(* GET /profile after the login; the status is printed and not read again *)
PL_Profile(c) ==
    /\ pc[c] = "pl_profile"
    /\ Turn(c)
    /\ \E resp \in PlainResponses :
         IF resp.kind = "raise" THEN FlowFailed(c, <<"req_profile">>)
         ELSE Goto(c, "pl_authorize", <<"req_profile">>,
                   [loc[c] EXCEPT !.profile_status = resp.status])
    /\ UNCHANGED <<cmd, gate_activity, lastReturn, api, postmanVars, cacheVars, variant, now, tokens, written>>

(* prod: nonce = ''.join(str(uuid.uuid4()).split('-'))[:32], sent with the *)
(* authorize request; beta generates and sends none                         *)
FreshNonce(c, t) == IF Beta THEN NULL ELSE Nonce(c, t)

(* GET /oauth2/auth, allow_redirects=False *)
PL_Authorize(c) ==
    /\ pc[c] = "pl_authorize"
    /\ Turn(c)
    /\ \E resp \in AuthorizeResponses :
         IF resp.kind = "raise" THEN FlowFailed(c, <<"req_authorize">>)
         ELSE IF resp.status = 302
              THEN Goto(c, "pl_interaction1", <<"req_authorize">>,
                        [loc[c] EXCEPT
                           !.auth_nonce = FreshNonce(c, now),
                           !.interaction_id = LastSegment(resp.location),
                           !.profile_status = 0])
         ELSE FlowFailed(c, <<"req_authorize">>)
    /\ UNCHANGED <<cmd, gate_activity, lastReturn, api, postmanVars, cacheVars, variant, now, tokens, written>>

(* GET /interaction/<interaction_id>.  interaction_id is last read when    *)
(* the URL of the second interaction request is built, and is dropped from *)
(* the locals there                                                        *)
PL_Interaction1(c) ==
    /\ pc[c] = "pl_interaction1"
    /\ Turn(c)
    /\ \E resp \in RedirectResponses :
         IF resp.kind = "raise" THEN FlowFailed(c, <<"req_interaction1">>)
         ELSE IF resp.status = 302
              THEN Goto(c, "pl_interaction2", <<"req_interaction1">>, loc[c])
         ELSE FlowFailed(c, <<"req_interaction1">>)
    /\ UNCHANGED <<cmd, gate_activity, lastReturn, api, postmanVars, cacheVars, variant, now, tokens, written>>

(* prod: GET /oauth2/auth/<interaction_id>; the tokens are in the fragment *)
(* of the Location of the 302                                              *)
PL_Interaction2Prod(c) ==
    /\ pc[c] = "pl_interaction2"
    /\ Turn(c)
    /\ ~Beta
    /\ \E resp \in FragmentResponses(c, now) :
         IF resp.kind = "raise" THEN FlowFailed(c, <<"req_interaction2">>)
         ELSE IF resp.status = 302 /\ resp.frag = "malformed"
              THEN Raise(c, "ValueError", <<"req_interaction2", "flow_failed">>)
         ELSE IF resp.status = 302 /\ resp.frag = "params" /\ Truthy(resp.token)
              THEN Goto(c, "pl_mint", <<"req_interaction2">>,
                        [loc[c] EXCEPT !.auth_token = resp.token,
                                       !.access_token = resp.token2,
                                       !.interaction_id = ""])
         ELSE FlowFailed(c, <<"req_interaction2">>)
    /\ UNCHANGED <<cmd, gate_activity, lastReturn, api, postmanVars, cacheVars, variant, now, tokens, written>>

(* beta: GET /oauth2/auth/<interaction_id>; the Location of the 302 is the *)
(* callback URL                                                            *)
PL_Interaction2Beta(c) ==
    /\ pc[c] = "pl_interaction2"
    /\ Turn(c)
    /\ Beta
    /\ \E resp \in RedirectResponses :
         IF resp.kind = "raise" THEN FlowFailed(c, <<"req_interaction2">>)
         ELSE IF resp.status = 302
              THEN Goto(c, "pl_callback", <<"req_interaction2">>,
                        [loc[c] EXCEPT !.interaction_id = ""])
         ELSE FlowFailed(c, <<"req_interaction2">>)
    /\ UNCHANGED <<cmd, gate_activity, lastReturn, api, postmanVars, cacheVars, variant, now, tokens, written>>

(* beta: GET <callback url>; a 302 or 307 carries the cookies idToken and  *)
(* refreshToken, and both are needed                                       *)
PL_Callback(c) ==
    /\ pc[c] = "pl_callback"
    /\ Turn(c)
    /\ \E resp \in CallbackResponses(c, now) :
         IF resp.kind = "raise" THEN FlowFailed(c, <<"req_callback">>)
         ELSE IF resp.status \in {302, 307} /\ Truthy(resp.token) /\ Truthy(resp.token2)
              THEN Goto(c, "pl_mint", <<"req_callback">>,
                        [loc[c] EXCEPT !.auth_token = resp.token,
                                       !.refresh_token = resp.token2])
         ELSE FlowFailed(c, <<"req_callback">>)
    /\ UNCHANGED <<cmd, gate_activity, lastReturn, api, postmanVars, cacheVars, variant, now, tokens, written>>

(* system_token = self.refresh_system_token(id token) *)
PL_Mint(c) ==
    /\ pc[c] = "pl_mint"
    /\ Turn(c)
    /\ \E resp \in SystemTokenResponses(loc[c].auth_token, now) :
         LET system_token == refresh_system_token(resp) IN
         IF resp.kind = "raise" THEN FlowFailed(c, <<"req_login_mint">>)
         ELSE IF Truthy(system_token)
              THEN Goto(c, "login_store", <<"req_login_mint">>,
                        [loc[c] EXCEPT !.system_token = system_token])
         ELSE FlowFailed(c, <<"req_login_mint">>)
    /\ UNCHANGED <<cmd, gate_activity, lastReturn, api, postmanVars, cacheVars, variant, now, tokens, written>>

(* Mutant of Login_Store: login stores what the flow has once it holds the *)
(* identity token, before the system token is minted                       *)
Login_Store_BeforeMint(c) ==
    /\ pc[c] = "pl_mint"
    /\ Turn(c)
    /\ RowsOf(tokens, SystemId) # {NewRow(LoginAuthData(loc[c]), now)}
    /\ Store(c, LoginAuthData(loc[c]))
    /\ UNCHANGED <<cmd, gate_activity, lastReturn, api, postmanVars, cacheVars, variant, now, pc, loc, trace, result, err>>

(* login: if auth_data: self.token_manager.store_tokens(auth_data);        *)
(* return auth_data                                                        *)
Login_Store(c) ==
    /\ pc[c] = "login_store"
    /\ Turn(c)
    /\ \E dbok \in BOOLEAN :
         IF ~dbok
         THEN /\ Raise(c, "sqlite3.Error", <<"db_error">>)
              /\ UNCHANGED <<tokens, written>>
         ELSE /\ Store(c, LoginAuthData(loc[c]))
              /\ Return(c, LoginAuthData(loc[c]), <<"store_tokens">>)
    /\ UNCHANGED <<cmd, gate_activity, lastReturn, api, postmanVars, cacheVars, variant, now>>

-----------------------------------------------------------------------------
(* The clock: a minute passes, or (a bounded number of times) 30 days *)

Minute == now % RefreshTokenTTL
Jumps == now \div RefreshTokenTTL

Tick ==
    /\ Settled
    /\ \A c \in Callers : pc[c] \notin LocalPcs
    /\ Minute < MaxMinutes
    /\ now' = now + 1
    /\ UNCHANGED <<cmd, gate_activity, lastReturn, api, postmanVars, cacheVars, variant, tokens, pc, loc, trace, result, err, written>>

Jump ==
    /\ Jumps < MaxJumps
    /\ now' = now + RefreshTokenTTL
    /\ UNCHANGED <<cmd, gate_activity, lastReturn, api, postmanVars, cacheVars, variant, tokens, pc, loc, trace, result, err, written>>

-----------------------------------------------------------------------------

Init ==
    /\ variant \in Variants
    /\ now = 0
    /\ tokens = {}
    /\ pc = [c \in Callers |-> "idle"]
    /\ loc = [c \in Callers |-> NoLocals]
    /\ trace = [c \in Callers |-> <<>>]
    /\ result = [c \in Callers |-> NoResult]
    /\ err = [c \in Callers |-> ""]
    /\ written = NoWrite
    /\ api = NoApi
    /\ lastReturn = NoReturn
    /\ cmd = NoCmd
    /\ gate_activity = <<>>
    /\ postman = NoPostman
    /\ collections = <<>>
    /\ lister = NoLister
    /\ cloud_nodes = {}
    /\ devices = {}

(* The call has ended: its caller takes the dict, the exception or the     *)
(* exit, and the record of the call is dropped                             *)
Finish(c) ==
    /\ pc[c] \in {"done", "failed", "exited"}
    /\ pc' = [pc EXCEPT ![c] = "idle"]
    /\ trace' = [trace EXCEPT ![c] = <<>>]
    /\ result' = [result EXCEPT ![c] = NoResult]
    /\ err' = [err EXCEPT ![c] = ""]
    /\ UNCHANGED <<cmd, gate_activity, lastReturn, api, postmanVars, cacheVars, variant, now, tokens, loc, written>>

Next ==
    \/ \E c \in Callers : Finish(c)
    \/ Tick
    \/ \E c \in Callers :
         \/ StartCall(c)
         \/ GVT_Tier1(c)
         \/ GVT_Tier2Lookup(c)
         \/ GVT_Tier2Exchange(c)
         \/ GVT_Tier2Store(c)
         \/ GVT_Tier3Lookup(c)
         \/ RT_ReadIdToken(c)
         \/ RT_Request(c)
         \/ RT_Mint(c)
         \/ RT_Store(c)
         \/ GVT_Tier3Store(c)
         \/ PL_InitialProfile(c)
         \/ PL_LocalCheck(c)
         \/ PL_Submit(c)
         \/ PL_Profile(c)
         \/ PL_Authorize(c)
         \/ PL_Interaction1(c)
         \/ PL_Interaction2Prod(c)
         \/ PL_Interaction2Beta(c)
         \/ PL_Callback(c)
         \/ PL_Mint(c)
         \/ Login_Store(c)

Spec == Init /\ [][Next]_vars

-----------------------------------------------------------------------------
(* The TokenManager on its own: store_tokens called with the dicts its      *)
(* callers build, for any system id, as the clock runs over minutes and     *)
(* over the 30 days of the refresh token                                    *)

StoreInputs(c, system_id, t) ==
    LET id == IdToken(c, t)
        sys == SysToken(id, t)
    IN  IF Beta
        THEN { [current_system_id |-> system_id, auth_token |-> id,
                system_token |-> sys],
               [current_system_id |-> system_id, auth_token |-> id,
                refresh_token |-> RefreshToken(c, t), system_token |-> sys] }
        ELSE { [current_system_id |-> system_id, auth_token |-> id,
                access_token |-> NULL, system_token |-> sys,
                auth_nonce |-> NULL],
               [current_system_id |-> system_id, auth_nonce |-> Nonce(c, t),
                auth_token |-> id, access_token |-> AccessToken(c, t),
                system_token |-> sys] }

TM_Store(c, system_id) ==
    /\ \E auth_data \in StoreInputs(c, system_id, now) : Store(c, auth_data)
    /\ UNCHANGED <<cmd, gate_activity, lastReturn, api, postmanVars, cacheVars, variant, now, pc, loc, trace, result, err>>

NextTM ==
    \/ Tick
    \/ Jump
    \/ \E system_id \in Accounts : TM_Store(1, system_id)

SpecTM == Init /\ [][NextTM]_vars

-----------------------------------------------------------------------------
(* BaseAPI: process 1 owns one BaseAPI object; another process writes the  *)
(* shared token.db through store_tokens at any time.                       *)

ApiCaller == 1

(* what the resource endpoint may answer: body "" is a response without    *)
(* content                                                                  *)
ApiResp(kind, status, body) == [kind |-> kind, status |-> status, body |-> body]
ResourceResponses ==
    { ApiResp("raise", 0, ""),
      ApiResp("resp", 200, "doc"),
      ApiResp("resp", 204, ""),
      ApiResp("resp", 404, "not found"),
      ApiResp("resp", 500, "") }

(* response.json() *)
Json(body) == <<"json", body>>

(* _make_request after requests.request(...): raise_for_status() raises    *)
(* HTTPError for 400..599, response.json() raises JSONDecodeError on an    *)
(* empty body; every exception is logged and re-raised                     *)
RequestOutcome(resp) ==
    IF resp.kind = "raise"
    THEN [outcome |-> "raised", err |-> "RequestException", value |-> NULL]
    ELSE IF resp.status \in 400..599
    THEN [outcome |-> "raised", err |-> "HTTPError", value |-> NULL]
    ELSE IF resp.body = ""
    THEN [outcome |-> "raised", err |-> "JSONDecodeError", value |-> NULL]
    ELSE [outcome |-> "returned", err |-> "", value |-> Json(resp.body)]

(* the call of get_valid_tokens begins *)
Enter(c) ==
    /\ pc' = [pc EXCEPT ![c] = "t1"]
    /\ trace' = [trace EXCEPT ![c] = <<>>]
    /\ loc' = [loc EXCEPT ![c] = NoLocals]
    /\ result' = [result EXCEPT ![c] = NoResult]
    /\ err' = [err EXCEPT ![c] = ""]

(* Mutant of AfterRequest: after the answer the method authenticates again *)
AfterRequest_Reauthenticate == "t1"

(* the call of get_valid_tokens is over and its record dropped; after the  *)
(* answer of the resource request the method returns or raises, and the    *)
(* process is idle again                                                   *)
AfterRequest == "idle"
Leave(c, p) ==
    /\ pc' = [pc EXCEPT ![c] = p]
    /\ trace' = [trace EXCEPT ![c] = <<>>]
    /\ result' = [result EXCEPT ![c] = NoResult]
    /\ err' = [err EXCEPT ![c] = ""]
    /\ UNCHANGED loc

(* BaseAPI.__init__: self.auth = PDKAuth(); self._ensure_authenticated() *)
BaseAPI_Construct(c) ==
    /\ pc[c] = "idle"
    /\ Turn(c)
    /\ api.phase = "new"
    /\ Enter(c)
    /\ api' = [NoApi EXCEPT !.phase = "init", !.events = <<"get_valid_tokens">>]
    /\ UNCHANGED <<cmd, gate_activity, lastReturn, postmanVars, cacheVars, variant, now, tokens, written>>

(* _ensure_authenticated after get_valid_tokens: raise Exception when      *)
(* there is no auth_data or no system_token in it; an exception of         *)
(* get_valid_tokens passes through                                         *)
BaseAPI_EnsureAuthenticated(c) ==
    /\ api.phase = "init"
    /\ Ended(c)
    /\ Leave(c, "idle")
    /\ IF pc[c] = "done" /\ Truthy(Get(result[c], "system_token"))
       THEN api' = [api EXCEPT !.phase = "ready", !.auth_data = result[c],
                               !.outcome = "constructed"]
       ELSE api' = [api EXCEPT !.phase = "new",
                               !.auth_data = IF pc[c] = "done" THEN result[c] ELSE NULL,
                               !.outcome = IF pc[c] = "exited" THEN "exited" ELSE "raised"]
    /\ UNCHANGED <<cmd, gate_activity, lastReturn, postmanVars, cacheVars, variant, now, tokens, written>>

(* get / post / put / delete -> _make_request -> _refresh_if_needed *)
BaseAPI_Request(c) ==
    /\ pc[c] = "idle"
    /\ Turn(c)
    /\ api.phase = "ready"
    /\ Enter(c)
    /\ api' = [api EXCEPT !.phase = "call", !.events = <<"get_valid_tokens">>,
                          !.bearer = NULL, !.status = 0, !.outcome = "",
                          !.value = NULL]
    /\ UNCHANGED <<cmd, gate_activity, lastReturn, postmanVars, cacheVars, variant, now, tokens, written>>

(* Mutant of RequestBearer: the header is built from the auth_data the     *)
(* object held before this invocation                                      *)
RequestBearer_Kept(old_auth_data, returned) == old_auth_data["system_token"]

(* the system token put in the Authorization header:                       *)
(* f"Bearer {self.auth_data['system_token']}", self.auth_data being what   *)
(* get_valid_tokens just returned                                          *)
RequestBearer(old_auth_data, returned) == returned["system_token"]

(* _make_request after _refresh_if_needed returned: self.auth_data is set, *)
(* the request is sent and its answer returned or raised                   *)
BaseAPI_Send(c) ==
    /\ api.phase = "call"
    /\ pc[c] = "done"
    /\ \E resp \in ResourceResponses :
         LET out == RequestOutcome(resp) IN
         api' = [api EXCEPT !.phase = "ready",
                            !.auth_data = result[c],
                            !.events = @ \o <<"resource_request">>,
                            !.bearer = RequestBearer(api.auth_data, result[c]),
                            !.status = resp.status,
                            !.outcome = out.outcome,
                            !.value = out.value]
    /\ Leave(c, AfterRequest)
    /\ UNCHANGED <<cmd, gate_activity, lastReturn, postmanVars, cacheVars, variant, now, tokens, written>>

(* _refresh_if_needed raised (or the process exited): _make_request is     *)
(* left before the request is built                                        *)
BaseAPI_Abort(c) ==
    /\ api.phase = "call"
    /\ pc[c] \in {"failed", "exited"}
    /\ api' = [api EXCEPT !.phase = IF pc[c] = "exited" THEN "new" ELSE "ready",
                          !.auth_data = IF pc[c] = "exited" THEN NULL ELSE @,
                          !.outcome = IF pc[c] = "exited" THEN "exited" ELSE "raised"]
    /\ Leave(c, "idle")
    /\ UNCHANGED <<cmd, gate_activity, lastReturn, postmanVars, cacheVars, variant, now, tokens, written>>

(* another process stores its credential set *)
OtherProcessStore ==
    /\ Settled
    /\ pc[ApiCaller] \notin LocalPcs
    /\ TM_Store(2, SystemId)

NextAPI ==
    \/ Tick
    \/ OtherProcessStore
    \/ \E c \in {ApiCaller} :
         \/ BaseAPI_Construct(c)
         \/ BaseAPI_EnsureAuthenticated(c)
         \/ BaseAPI_Request(c)
         \/ BaseAPI_Send(c)
         \/ BaseAPI_Abort(c)
         \/ GVT_Tier1(c)
         \/ GVT_Tier2Lookup(c)
         \/ GVT_Tier2Exchange(c)
         \/ GVT_Tier2Store(c)
         \/ GVT_Tier3Lookup(c)
         \/ RT_ReadIdToken(c)
         \/ RT_Request(c)
         \/ RT_Mint(c)
         \/ RT_Store(c)
         \/ GVT_Tier3Store(c)
         \/ PL_InitialProfile(c)
         \/ PL_LocalCheck(c)
         \/ PL_Submit(c)
         \/ PL_Profile(c)
         \/ PL_Authorize(c)
         \/ PL_Interaction1(c)
         \/ PL_Interaction2Prod(c)
         \/ PL_Interaction2Beta(c)
         \/ PL_Callback(c)
         \/ PL_Mint(c)
         \/ Login_Store(c)

SpecAPI == Init /\ [][NextAPI]_vars

-----------------------------------------------------------------------------
(* One process with one thread, and nothing else writing token.db: the     *)
(* program asks for credentials again and again, through the same PDKAuth  *)
(* or through a new one (main() of close_device.py builds three endpoint   *)
(* objects in a row, and each BaseAPI.__init__ builds its own PDKAuth and  *)
(* calls get_valid_tokens).  Process runs follow each other on the same    *)
(* token.db.                                                               *)

SeqCaller == 1

(* get_valid_tokens is called by the program *)
Seq_Call == StartCall(SeqCaller)

(* the call is over: the program takes the dict (self.auth_data =          *)
(* self.auth.get_valid_tokens()), the exception or the exit                *)
Seq_Handover ==
    /\ Ended(SeqCaller)
    /\ lastReturn' = IF pc[SeqCaller] = "done"
                     THEN [at |-> now, auth_data |-> result[SeqCaller]]
                     ELSE lastReturn
    /\ Leave(SeqCaller, "idle")
    /\ UNCHANGED <<cmd, gate_activity, api, postmanVars, cacheVars, variant, now, tokens, written>>

(* thirty days pass between two calls *)
Seq_Jump == Settled /\ Jump

NextSeq ==
    \/ Tick
    \/ Seq_Jump
    \/ Seq_Call
    \/ Seq_Handover
    \/ \E c \in {SeqCaller} :
         \/ GVT_Tier1(c)
         \/ GVT_Tier2Lookup(c)
         \/ GVT_Tier3Lookup(c)
         \/ RT_ReadIdToken(c)
         \/ RT_Request(c)
         \/ RT_Mint(c)
         \/ RT_Store(c)
         \/ GVT_Tier3Store(c)
         \/ PL_InitialProfile(c)
         \/ PL_LocalCheck(c)
         \/ PL_Submit(c)
         \/ PL_Profile(c)
         \/ PL_Authorize(c)
         \/ PL_Interaction1(c)
         \/ PL_Interaction2Prod(c)
         \/ PL_Interaction2Beta(c)
         \/ PL_Callback(c)
         \/ PL_Mint(c)
         \/ Login_Store(c)

SpecSeq == Init /\ [][NextSeq]_vars

-----------------------------------------------------------------------------
(* One process calling get_valid_tokens while another process may write    *)
(* token.db, with every request and every store operation of the call      *)
(* returning: the code is synchronous, so a call that has begun takes its  *)
(* next step.                                                              *)

LiveCaller == 1

(* one step of the body of get_valid_tokens *)
CallStep(c) ==
    \/ GVT_Tier1(c)
    \/ GVT_Tier2Lookup(c)
    \/ GVT_Tier2Exchange(c)
    \/ GVT_Tier2Store(c)
    \/ GVT_Tier3Lookup(c)
    \/ RT_ReadIdToken(c)
    \/ RT_Request(c)
    \/ RT_Mint(c)
    \/ RT_Store(c)
    \/ GVT_Tier3Store(c)
    \/ PL_InitialProfile(c)
    \/ PL_LocalCheck(c)
    \/ PL_Submit(c)
    \/ PL_Profile(c)
    \/ PL_Authorize(c)
    \/ PL_Interaction1(c)
    \/ PL_Interaction2Prod(c)
    \/ PL_Interaction2Beta(c)
    \/ PL_Callback(c)
    \/ PL_Mint(c)
    \/ Login_Store(c)

NextLive ==
    \/ Tick
    \/ OtherProcessStore
    \/ StartCall(LiveCaller)
    \/ Finish(LiveCaller)
    \/ CallStep(LiveCaller)

SpecLive == Init /\ [][NextLive]_vars /\ WF_vars(CallStep(LiveCaller))

-----------------------------------------------------------------------------
(* PDKAuth.initialize, as main() of auth.py calls it: one process, one     *)
(* thread, process runs following each other on the same token.db          *)

(* initialize is called *)
Initialize_Call(c) ==
    /\ pc[c] = "idle"
    /\ Turn(c)
    /\ pc' = [pc EXCEPT ![c] = "init_lookup"]
    /\ trace' = [trace EXCEPT ![c] = <<>>]
    /\ loc' = [loc EXCEPT ![c] = NoLocals]
    /\ result' = [result EXCEPT ![c] = NoResult]
    /\ err' = [err EXCEPT ![c] = ""]
    /\ UNCHANGED <<cmd, gate_activity, lastReturn, api, postmanVars, cacheVars, variant, now, tokens, written>>

(* the dict initialize builds from the row, by position: tokens[0] to      *)
(* tokens[4], the same five positions in both variants                     *)
InitializeResult(row) ==
    [current_system_id |-> row[1], auth_token |-> row[2],
     access_token |-> row[3], system_token |-> row[4], auth_nonce |-> row[5]]

(* tokens = self.token_manager.get_valid_tokens(self.system_id); with no   *)
(* row, auth_data = self.login()                                           *)
Initialize_Lookup(c) ==
    /\ pc[c] = "init_lookup"
    /\ Turn(c)
    /\ \E dbok \in BOOLEAN :
         LET row == TM_get_valid_tokens(tokens, SystemId, now) IN
         IF ~dbok THEN Raise(c, "sqlite3.Error", <<"db_error">>)
         ELSE IF Truthy(row) THEN Return(c, InitializeResult(row), <<"init_hit">>)
         ELSE Goto(c, LoginEntry, <<"init_miss">>, loc[c])
    /\ UNCHANGED <<cmd, gate_activity, lastReturn, api, postmanVars, cacheVars, variant, now, tokens, written>>

NextInit ==
    \/ Tick
    \/ Seq_Jump
    \/ Seq_Handover
    \/ \E c \in {SeqCaller} :
         \/ Initialize_Call(c)
         \/ Initialize_Lookup(c)
         \/ PL_InitialProfile(c)
         \/ PL_LocalCheck(c)
         \/ PL_Submit(c)
         \/ PL_Profile(c)
         \/ PL_Authorize(c)
         \/ PL_Interaction1(c)
         \/ PL_Interaction2Prod(c)
         \/ PL_Interaction2Beta(c)
         \/ PL_Callback(c)
         \/ PL_Mint(c)
         \/ Login_Store(c)

SpecInit == Init /\ [][NextInit]_vars

-----------------------------------------------------------------------------
(* Device commands.  Process 1 builds one endpoint object,                 *)
(* PDKDeviceControlEndpoint (commands/control_device.py) or                *)
(* PDKDeviceCloseEndpoint (commands/close_device.py), both subclasses of   *)
(* the BaseAPI of auth.py, and calls its commands again and again.         *)

CmdCaller == 1
MaxActivity == 2

Endpoints == {"PDKDeviceControlEndpoint", "PDKDeviceCloseEndpoint"}

Dwell(n) == <<n>>
DwellInputs == {NULL, Dwell(0), Dwell(1), Dwell(5400), Dwell(5401)}

(* a validation with the bounds 1 and 5400 themselves rejected             *)
DwellRejected_Exclusive(dwell) ==
    dwell # NULL /\ ~(1 < dwell[1] /\ dwell[1] < 5400)

(* if dwell is not None: if not 1 <= dwell <= 5400: raise ValueError *)
DwellRejected(dwell) == dwell # NULL /\ ~(1 <= dwell[1] /\ dwell[1] <= 5400)

(* data = {}; if dwell is not None: data['dwell'] = dwell *)
OpenBody(dwell) == IF dwell # NULL THEN [dwell |-> dwell[1]] ELSE <<>>

(* what the platform may answer to a command: 204 No Content on success *)
CommandResponses ==
    { ApiResp("raise", 0, ""),
      ApiResp("resp", 204, ""),
      ApiResp("resp", 200, "doc"),
      ApiResp("resp", 401, ""),
      ApiResp("resp", 404, "not found"),
      ApiResp("resp", 500, "") }

(* try: response = post(...); response.raise_for_status(); success = True *)
(* except Exception: success = False                                      *)
CommandSucceeded(resp) == resp.kind = "resp" /\ resp.status \notin 400..599

(* the platform's verdict on a command, as the answer to its request says *)
RemoteVerdict(resp) == IF CommandSucceeded(resp) THEN "success" ELSE "failure"

(* the verdicts the platform may have on a command *)
RemoteVerdicts == {RemoteVerdict(resp) : resp \in CommandResponses}

StatusOf(success) == IF success THEN "SUCCESS" ELSE "FAILED"

(* json.dumps of the response dict of try_open_device: {"success": ...,    *)
(* "dwell": dwell if dwell else "default"}, and of close_device            *)
OpenResponse(success, dwell) ==
    [success |-> success,
     dwell |-> IF dwell # NULL /\ dwell[1] # 0 THEN ToString(dwell[1]) ELSE "default"]
CloseResponse(success) == [success |-> success]

(* GateActivityManager.log_activity: INSERT INTO gate_activity (device_id, *)
(* cloud_node_id, action, status, response, timestamp); the ids are those  *)
(* of the call                                                             *)
ActivityRow(action, status, response, t) ==
    [action |-> action, status |-> status, response |-> response, timestamp |-> t]
log_activity(log, row) == Append(log, row)

(* a command call ends: log_activity commits and the call returns success, *)
(* or log_activity raises sqlite3.Error, which it logs and re-raises       *)
LogAndReturn(c, row, success, evs, dbok) ==
    IF dbok
    THEN /\ gate_activity' = log_activity(gate_activity, row)
         /\ cmd' = [c EXCEPT !.events = @ \o evs \o <<"log_activity">>,
                             !.outcome = IF success THEN "True" ELSE "False"]
    ELSE /\ gate_activity' = gate_activity
         /\ cmd' = [c EXCEPT !.events = @ \o evs \o <<"log_activity">>,
                             !.outcome = "raised", !.err = "sqlite3.Error"]

(* <Endpoint>.__init__: super().__init__(base_url), which builds a PDKAuth *)
(* and calls _ensure_authenticated; then self.activity_manager =           *)
(* GateActivityManager()                                                   *)
Cmd_Construct(c, endpoint) ==
    /\ ~Beta
    /\ pc[c] = "idle"
    /\ cmd.phase = "new"
    /\ Enter(c)
    /\ cmd' = [NoCmd EXCEPT !.endpoint = endpoint, !.phase = "init"]
    /\ UNCHANGED <<gate_activity, lastReturn, api, postmanVars, cacheVars, variant, now, tokens, written>>

(* _ensure_authenticated after get_valid_tokens *)
Cmd_Constructed(c) ==
    /\ cmd.phase = "init"
    /\ Ended(c)
    /\ Leave(c, "idle")
    /\ IF pc[c] = "done" /\ Truthy(Get(result[c], "system_token"))
       THEN cmd' = [cmd EXCEPT !.phase = "ready", !.auth_data = result[c]]
       ELSE cmd' = [NoCmd EXCEPT !.outcome = IF pc[c] = "exited" THEN "exited" ELSE "raised"]
    /\ UNCHANGED <<gate_activity, lastReturn, api, postmanVars, cacheVars, variant, now, tokens, written>>

(* a command call begins on the constructed object *)
NewCall(command, dwell) ==
    [cmd EXCEPT !.command = command, !.dwell = dwell, !.events = <<>>,
                !.bearer = NULL, !.body = NULL, !.remote = "",
                !.outcome = "", !.err = ""]

(* PDKDeviceControlEndpoint.try_open_device.  The object has neither       *)
(* self.session nor self.headers (BaseAPI sets logger, base_url, auth and  *)
(* auth_data): evaluating self.session.post raises AttributeError inside   *)
(* the try, before anything is sent, and except Exception makes it a       *)
(* failure                                                                 *)
Cmd_TryOpen(c) ==
    /\ pc[c] = "idle"
    /\ cmd.phase = "ready"
    /\ cmd.endpoint = "PDKDeviceControlEndpoint"
    /\ Len(gate_activity) < MaxActivity
    /\ \E dwell \in DwellInputs, dbok \in BOOLEAN, verdict \in RemoteVerdicts :
         IF DwellRejected(dwell)
         THEN /\ cmd' = [NewCall("try_open_device", dwell) EXCEPT
                           !.outcome = "raised", !.err = "ValueError"]
              /\ UNCHANGED gate_activity
         ELSE LogAndReturn([NewCall("try_open_device", dwell) EXCEPT
                              !.body = OpenBody(dwell), !.remote = verdict],
                           ActivityRow("OPEN", StatusOf(FALSE),
                                       OpenResponse(FALSE, dwell), now),
                           FALSE, <<>>, dbok)
    /\ UNCHANGED <<lastReturn, api, postmanVars, cacheVars, variant, now, tokens, pc, loc, trace, result,
                   err, written>>

(* PDKDeviceControlEndpoint.close_device: the same AttributeError *)
Cmd_ControlClose(c) ==
    /\ pc[c] = "idle"
    /\ cmd.phase = "ready"
    /\ cmd.endpoint = "PDKDeviceControlEndpoint"
    /\ Len(gate_activity) < MaxActivity
    /\ \E dbok \in BOOLEAN, verdict \in RemoteVerdicts :
         LogAndReturn([NewCall("close_device", NULL) EXCEPT
                         !.body = <<>>, !.remote = verdict],
                      ActivityRow("CLOSE", StatusOf(FALSE), CloseResponse(FALSE), now),
                      FALSE, <<>>, dbok)
    /\ UNCHANGED <<lastReturn, api, postmanVars, cacheVars, variant, now, tokens, pc, loc, trace, result,
                   err, written>>

(* PDKDeviceCloseEndpoint.close_device: self._refresh_if_needed() *)
Cmd_Close(c) ==
    /\ pc[c] = "idle"
    /\ cmd.phase = "ready"
    /\ cmd.endpoint = "PDKDeviceCloseEndpoint"
    /\ Len(gate_activity) < MaxActivity
    /\ Enter(c)
    /\ cmd' = [NewCall("close_device", NULL) EXCEPT
                 !.phase = "refresh", !.events = <<"get_valid_tokens">>]
    /\ UNCHANGED <<gate_activity, lastReturn, api, postmanVars, cacheVars, variant, now, tokens, written>>

(* the header of the command request:                                      *)
(* f"Bearer {self.auth_data['system_token']}"                              *)
CommandBearer(auth_data) == auth_data["system_token"]

(* PDKDeviceCloseEndpoint.close_device after _refresh_if_needed returned:  *)
(* requests.post(url, headers=headers, json={}), the activity row, return  *)
Cmd_CloseSend(c) ==
    /\ cmd.phase = "refresh"
    /\ pc[c] = "done"
    /\ \E resp \in CommandResponses, dbok \in BOOLEAN :
         LET success == CommandSucceeded(resp) IN
         LogAndReturn([cmd EXCEPT !.phase = "ready", !.auth_data = result[c],
                                  !.bearer = CommandBearer(result[c]),
                                  !.body = <<>>, !.remote = RemoteVerdict(resp)],
                      ActivityRow("CLOSE", StatusOf(success), CloseResponse(success), now),
                      success, <<"request">>, dbok)
    /\ Leave(c, "idle")
    /\ UNCHANGED <<lastReturn, api, postmanVars, cacheVars, variant, now, tokens, written>>

(* _refresh_if_needed raised, or the process exited: close_device is left  *)
(* before the request is built and before anything is logged               *)
Cmd_CloseAbort(c) ==
    /\ cmd.phase = "refresh"
    /\ pc[c] \in {"failed", "exited"}
    /\ cmd' = IF pc[c] = "exited"
              THEN [NoCmd EXCEPT !.outcome = "exited"]
              ELSE [cmd EXCEPT !.phase = "ready", !.outcome = "raised", !.err = err[c]]
    /\ Leave(c, "idle")
    /\ UNCHANGED <<gate_activity, lastReturn, api, postmanVars, cacheVars, variant, now, tokens, written>>

NextCmd ==
    \/ Tick
    \/ \E c \in {CmdCaller} :
         \/ \E endpoint \in Endpoints : Cmd_Construct(c, endpoint)
         \/ Cmd_Constructed(c)
         \/ Cmd_TryOpen(c)
         \/ Cmd_ControlClose(c)
         \/ Cmd_Close(c)
         \/ Cmd_CloseSend(c)
         \/ Cmd_CloseAbort(c)
         \/ GVT_Tier1(c)
         \/ GVT_Tier2Lookup(c)
         \/ PL_Submit(c)
         \/ PL_Profile(c)
         \/ PL_Authorize(c)
         \/ PL_Interaction1(c)
         \/ PL_Interaction2Prod(c)
         \/ PL_Mint(c)
         \/ Login_Store(c)

SpecCmd == Init /\ [][NextCmd]_vars

-----------------------------------------------------------------------------
(* test.py: the Postman collection checker, a script of its own with its   *)
(* own database collections.db.  main builds one checker and calls         *)
(* compare_collections once; the script may be run again and again.        *)

MaxCollections == 2  \* rows the collections table takes

(* @backoff.on_exception(backoff.expo, RequestException, max_tries=5) *)
max_tries == 5

(* the exception classes the retry wrapper catches *)
RetriedExceptions == {"RequestException"}

(* what the download URL may answer; body "{}" is an empty JSON object and *)
(* "<html>" a body that is not JSON                                        *)
CollectionResponses ==
    { ApiResp("raise", 0, ""),
      ApiResp("resp", 200, "docA"),
      ApiResp("resp", 200, "docB"),
      ApiResp("resp", 200, "{}"),
      ApiResp("resp", 200, "<html>"),
      ApiResp("resp", 404, "not found"),
      ApiResp("resp", 500, "") }

FetchedMsg == "Collection successfully fetched from API"
FailedMsg == "Failed to fetch collection after retries"

(* the body of fetch_collection, one invocation: requests.get raises, or   *)
(* raise_for_status raises HTTPError for 400..599, or response.json()      *)
(* raises on a body that is not JSON; 'except requests.RequestException'   *)
(* logs and returns None.  The error of response.json() is a               *)
(* RequestException in requests 2.27 and later (catches) and a plain       *)
(* ValueError before, which passes through.                                *)
FetchBody(resp, catches) ==
    IF resp.kind = "raise" \/ resp.status \in 400..599
    THEN [kind |-> "return", value |-> NULL, exc |-> "", log |-> <<FailedMsg>>]
    ELSE IF resp.body = "<html>"
    THEN (IF catches
          THEN [kind |-> "return", value |-> NULL, exc |-> "",
                log |-> <<FetchedMsg, FailedMsg>>]
          ELSE [kind |-> "raise", value |-> NULL, exc |-> "ValueError",
                log |-> <<FetchedMsg>>])
    ELSE [kind |-> "return", value |-> Json(resp.body), exc |-> "",
          log |-> <<FetchedMsg>>]

(* 'not current_data': None and the empty object *)
NoData(current_data) == current_data = NULL \/ current_data = Json("{}")

(* DatabaseManager.save_collection: INSERT INTO collections *)
save_collection(table, collection_data, t) ==
    Append(table, [timestamp |-> t, collection_data |-> collection_data])

(* get_latest_collections(2) and the DeepDiff of the two: what             *)
(* compare_collections reports                                             *)
Report(table) ==
    IF Len(table) < 2
    THEN "No previous collection found for comparison"
    ELSE IF table[Len(table)].collection_data = table[Len(table) - 1].collection_data
    THEN "ALL CLEAR"
    ELSE "CHANGES DETECTED"

(* main: checker.compare_collections() is called; it calls the decorated   *)
(* fetch_collection                                                        *)
PCC_CompareCollections ==
    /\ postman.phase = "idle"
    /\ Len(collections) < MaxCollections
    /\ postman' = [NoPostman EXCEPT !.phase = "fetch"]
    /\ UNCHANGED <<collections, cacheVars, cmd, gate_activity, lastReturn, api, variant,
                   now, tokens, pc, loc, trace, result, err, written>>

(* the retry wrapper invokes fetch_collection's body once more: tries += 1 *)
(* and the request is sent.  An exception of a retried class is swallowed  *)
(* and the body invoked again unless tries == max_tries; any other         *)
(* exception passes through; a returned value is returned.                 *)
PCC_FetchAttempt ==
    /\ postman.phase = "fetch"
    /\ \E resp \in CollectionResponses, catches \in BOOLEAN :
         LET out == FetchBody(resp, catches)
             tries == postman.tries + 1
             p == [postman EXCEPT !.tries = tries, !.requests = @ + 1,
                                  !.log = @ \o out.log]
         IN  IF out.kind = "raise" /\ out.exc \in RetriedExceptions
             THEN (IF tries = max_tries
                   THEN postman' = [p EXCEPT !.phase = "idle", !.outcome = "raised"]
                   ELSE postman' = p)
             ELSE IF out.kind = "raise"
             THEN postman' = [p EXCEPT !.phase = "idle", !.outcome = "raised"]
             ELSE postman' = [p EXCEPT !.phase = "fetched",
                                       !.current_data = out.value]
    /\ UNCHANGED <<collections, cacheVars, cmd, gate_activity, lastReturn, api, variant,
                   now, tokens, pc, loc, trace, result, err, written>>

(* compare_collections after fetch_collection returned: nothing more when  *)
(* there is no data; else the collection is saved and compared with the    *)
(* one saved before it                                                     *)
PCC_Process ==
    /\ postman.phase = "fetched"
    /\ IF NoData(postman.current_data)
       THEN /\ postman' = [postman EXCEPT !.phase = "idle", !.outcome = "no data"]
            /\ UNCHANGED collections
       ELSE \E dbok \in BOOLEAN :
              IF dbok
              THEN /\ collections' = save_collection(collections,
                                                     postman.current_data, now)
                   /\ postman' = [postman EXCEPT !.phase = "idle",
                                                 !.outcome = Report(collections')]
              ELSE /\ postman' = [postman EXCEPT !.phase = "idle",
                                                 !.outcome = "raised"]
                   /\ UNCHANGED collections
    /\ UNCHANGED <<cacheVars, cmd, gate_activity, lastReturn, api, variant,
                   now, tokens, pc, loc, trace, result, err, written>>

NextPostman ==
    \/ Tick
    \/ PCC_CompareCollections
    \/ PCC_FetchAttempt
    \/ PCC_Process

SpecPostman == Init /\ [][NextPostman]_vars

-----------------------------------------------------------------------------
(* system_functions: PDKEndpoint.list_cloud_nodes and                      *)
(* PDKDeviceEndpoint.list_devices_on_cloud_node, which copy what the       *)
(* platform lists into the tables cloud_nodes and devices of token.db.     *)
(* Both import BaseAPI from auth.py.  Of the columns of a row the model    *)
(* keeps the key, name (which stands for every column bound from           *)
(* node.get(...) / device.get(...)), cloud_node_id and last_updated.       *)

ListCaller == 1
MaxListCalls == 2    \* listing calls of one run

ListEndpoints == {"PDKEndpoint", "PDKDeviceEndpoint"}
CloudNodeIds == {"n1", "n2"}

Item(id, name) == [id |-> id, name |-> name]

(* what GET cloud-nodes and GET cloud-nodes/<id>/devices may answer: a     *)
(* list (empty, one entry, two entries, the same id twice), an object      *)
(* that is no list, no content, an error status, no answer                 *)
ListResp(kind, status, body) == [kind |-> kind, status |-> status, body |-> body]
ListedItems(endpoint) ==
    IF endpoint = "PDKEndpoint"
    THEN { <<>>,
           <<Item("n1", "a")>>,
           <<Item("n1", "b"), Item("n2", "a")>>,
           <<Item("n1", "a"), Item("n1", "b")>> }
    ELSE { <<>>,
           <<Item("d1", "a")>>,
           <<Item("d1", "b"), Item("d2", "a")>> }
ListResponses(endpoint) ==
    { ListResp("resp", 200, ListBody(items)) : items \in ListedItems(endpoint) }
    \cup { ListResp("resp", 200, DictBody),
           ListResp("resp", 204, NoBody),
           ListResp("resp", 404, DictBody),
           ListResp("raise", 0, NoBody) }

(* _make_request after requests.request(...), as RequestOutcome: what      *)
(* self.get returns or raises                                              *)
ListOutcome(resp) ==
    IF resp.kind = "raise"
    THEN [outcome |-> "raised", err |-> "RequestException", value |-> NoBody]
    ELSE IF resp.status \in 400..599
    THEN [outcome |-> "raised", err |-> "HTTPError", value |-> NoBody]
    ELSE IF resp.body.type = "none"
    THEN [outcome |-> "raised", err |-> "JSONDecodeError", value |-> NoBody]
    ELSE [outcome |-> "returned", err |-> "", value |-> resp.body]

(* isinstance(result, list) *)
IsList(value) == value.type = "list"

(* the row bound for one entry of the list *)
CloudNodeRow(node, t) ==
    [id |-> node.id, name |-> node.name, last_updated |-> t]
DeviceRow(cloud_node_id, device, t) ==
    [id |-> device.id, cloud_node_id |-> cloud_node_id, name |-> device.name,
     last_updated |-> t]

(* INSERT OR REPLACE INTO <table> ... : id is the PRIMARY KEY *)
InsertOrReplaceById(table, row) == {r \in table : r.id # row.id} \cup {row}

(* the table as the open transaction sees it after the first n statements *)
(* of 'for node in nodes: cursor.execute(INSERT OR REPLACE ...)'           *)
RECURSIVE Executed(_, _, _)
Executed(table, rows, n) ==
    IF n = 0
    THEN table
    ELSE InsertOrReplaceById(Executed(table, rows, n - 1), rows[n])

(* a batch whose failed statement leaves the earlier ones in the table *)
Rollback_Keep(before, working) == working

(* conn.close() in 'finally' with the transaction open: sqlite rolls back  *)
Rollback(before, working) == before

(* update_cloud_nodes / update_devices: the statements, then conn.commit(); *)
(* failAt = k > 0 is a sqlite3.Error raised by the k-th execute, logged    *)
(* and re-raised                                                           *)
UpdateRows(table, rows, failAt) ==
    IF failAt = 0
    THEN [table |-> Executed(table, rows, Len(rows)), raised |-> FALSE]
    ELSE [table |-> Rollback(table, Executed(table, rows, failAt - 1)),
          raised |-> TRUE]

(* the rows update_cloud_nodes(result) / update_devices(id, devices) bind  *)
RowsFor(endpoint, cloud_node_id, items, t) ==
    [i \in 1..Len(items) |->
        IF endpoint = "PDKEndpoint"
        THEN CloudNodeRow(items[i], t)
        ELSE DeviceRow(cloud_node_id, items[i], t)]

(* PDKEndpoint() / PDKDeviceEndpoint(): BaseAPI.__init__ authenticates *)
List_Construct(c, endpoint) ==
    /\ ~Beta
    /\ pc[c] = "idle"
    /\ lister.phase = "new"
    /\ Enter(c)
    /\ lister' = [NoLister EXCEPT !.endpoint = endpoint, !.phase = "init",
                                  !.calls = lister.calls]
    /\ UNCHANGED <<cloud_nodes, devices, postmanVars, cmd, gate_activity, lastReturn,
                   api, variant, now, tokens, written>>

(* _ensure_authenticated after get_valid_tokens, then CloudNodeManager() / *)
(* DeviceManager(): CREATE TABLE IF NOT EXISTS, which may raise            *)
List_Constructed(c) ==
    /\ lister.phase = "init"
    /\ Ended(c)
    /\ Leave(c, "idle")
    /\ \E dbok \in BOOLEAN :
         IF pc[c] = "done" /\ Truthy(Get(result[c], "system_token")) /\ dbok
         THEN lister' = [lister EXCEPT !.phase = "ready"]
         ELSE lister' = [NoLister EXCEPT
                           !.calls = lister.calls,
                           !.outcome = IF pc[c] = "exited" THEN "exited" ELSE "raised"]
    /\ UNCHANGED <<cloud_nodes, devices, postmanVars, cmd, gate_activity, lastReturn,
                   api, variant, now, tokens, written>>

(* list_cloud_nodes() / list_devices_on_cloud_node(cloud_node_id, name):   *)
(* self.get(...) -> _make_request -> _refresh_if_needed                    *)
List_Call(c) ==
    /\ pc[c] = "idle"
    /\ lister.phase = "ready"
    /\ lister.calls < MaxListCalls
    /\ Enter(c)
    /\ \E id \in CloudNodeIds :
         lister' = [lister EXCEPT
                      !.phase = "call",
                      !.cloud_node_id = IF lister.endpoint = "PDKEndpoint" THEN "" ELSE id,
                      !.calls = @ + 1, !.received = NoBody, !.outcome = "",
                      !.err = ""]
    /\ UNCHANGED <<cloud_nodes, devices, postmanVars, cmd, gate_activity, lastReturn,
                   api, variant, now, tokens, written>>

(* after _refresh_if_needed returned: the request, and on a list the       *)
(* update of the table; the method returns what self.get returned          *)
List_Receive(c) ==
    /\ lister.phase = "call"
    /\ pc[c] = "done"
    /\ \E resp \in ListResponses(lister.endpoint), failAt \in 0..2 :
         LET out == ListOutcome(resp)
             table == IF lister.endpoint = "PDKEndpoint" THEN cloud_nodes ELSE devices
             rows == RowsFor(lister.endpoint, lister.cloud_node_id,
                             out.value.items, now)
             upd == UpdateRows(table, rows, failAt)
             done == [lister EXCEPT !.phase = "ready", !.received = out.value]
         IN  /\ failAt <= Len(out.value.items)
             /\ IF out.outcome = "returned" /\ IsList(out.value)
                THEN /\ IF lister.endpoint = "PDKEndpoint"
                        THEN cloud_nodes' = upd.table /\ UNCHANGED devices
                        ELSE devices' = upd.table /\ UNCHANGED cloud_nodes
                     /\ lister' = IF upd.raised
                                  THEN [done EXCEPT !.outcome = "raised",
                                                    !.err = "sqlite3.Error"]
                                  ELSE [done EXCEPT !.outcome = "returned"]
                ELSE /\ failAt = 0
                     /\ UNCHANGED <<cloud_nodes, devices>>
                     /\ lister' = [done EXCEPT !.outcome = out.outcome,
                                               !.err = out.err]
    /\ Leave(c, "idle")
    /\ UNCHANGED <<postmanVars, cmd, gate_activity, lastReturn, api, variant, now,
                   tokens, written>>

(* _refresh_if_needed raised, or the process exited: the method is left    *)
(* before the request                                                      *)
List_Abort(c) ==
    /\ lister.phase = "call"
    /\ pc[c] \in {"failed", "exited"}
    /\ lister' = IF pc[c] = "exited"
                 THEN [NoLister EXCEPT !.calls = lister.calls, !.outcome = "exited"]
                 ELSE [lister EXCEPT !.phase = "ready", !.outcome = "raised",
                                     !.err = err[c]]
    /\ Leave(c, "idle")
    /\ UNCHANGED <<cloud_nodes, devices, postmanVars, cmd, gate_activity, lastReturn,
                   api, variant, now, tokens, written>>

NextList ==
    \/ Tick
    \/ \E c \in {ListCaller} :
         \/ \E endpoint \in ListEndpoints : List_Construct(c, endpoint)
         \/ List_Constructed(c)
         \/ List_Call(c)
         \/ List_Receive(c)
         \/ List_Abort(c)
         \/ GVT_Tier1(c)
         \/ GVT_Tier2Lookup(c)
         \/ PL_Submit(c)
         \/ PL_Profile(c)
         \/ PL_Authorize(c)
         \/ PL_Interaction1(c)
         \/ PL_Interaction2Prod(c)
         \/ PL_Mint(c)
         \/ Login_Store(c)

SpecList == Init /\ [][NextList]_vars

-----------------------------------------------------------------------------
(* Properties *)

Has(seq, e) == \E i \in 1..Len(seq) : seq[i] = e
Count(seq, e) == Cardinality({i \in 1..Len(seq) : seq[i] = e})
First(seq, e) == CHOOSE i \in 1..Len(seq) : seq[i] = e /\ \A j \in 1..(i - 1) : seq[j] # e

(* the credential columns of row r are the values of dict d, written at t *)
RowHolds(r, d, t) ==
    /\ Col(r, "system_id") = d["current_system_id"]
    /\ Col(r, "auth_token") = Get(d, "auth_token")
    /\ Col(r, "access_token") = Get(d, "access_token")
    /\ Col(r, "system_token") = Get(d, "system_token")
    /\ Col(r, "auth_nonce") = Get(d, "auth_nonce")
    /\ (Beta => Col(r, "refresh_token") = Get(d, "refresh_token"))
    /\ Col(r, "last_updated") = t

(* the times a row written at T is read at: every minute up to past the    *)
(* 5 minutes, and around the 30 days                                       *)
ProbeTimes(T) ==
    (T .. (T + AuthTokenTTL + 1))
    \cup {T + RefreshTokenTTL - 1, T + RefreshTokenTTL, T + RefreshTokenTTL + 1}

C10_UpsertByAccount ==
    [][ /\ \A system_id \in Accounts :
             /\ Cardinality(RowsOf(tokens', system_id)) <= 1
             /\ RowsOf(tokens, system_id) # {} => RowsOf(tokens', system_id) # {}
        /\ written' # written =>
             LET key == written'.data["current_system_id"] IN
             /\ Cardinality(RowsOf(tokens', key)) = 1
             /\ \A r \in RowsOf(tokens', key) : RowHolds(r, written'.data, written'.at)
             /\ \A system_id \in Accounts \ {key} :
                    RowsOf(tokens', system_id) = RowsOf(tokens, system_id)
      ]_vars

(* a second write for a system id, different from the row it replaced,     *)
(* next to a row of another system id                                      *)
C10_Witness ==
    /\ written # NoWrite
    /\ written.replaced # {}
    /\ written.replaced # RowsOf(tokens, written.data["current_system_id"])
    /\ \E r \in tokens : r[1] # written.data["current_system_id"]

LoginRequests ==
    {"req_initial_profile", "req_local_check", "req_login", "req_profile",
     "req_authorize", "req_interaction1", "req_interaction2", "req_callback",
     "req_login_mint"}
InFlow(tr) == \E i \in 1..Len(tr) : tr[i] \in LoginRequests
LoginFlowPcs ==
    {"pl_profile0", "pl_localcheck", "pl_submit", "pl_profile", "pl_authorize",
     "pl_interaction1", "pl_interaction2", "pl_callback", "pl_mint"}

(* C1: a request of the login flow is issued only after the Step 1 lookup  *)
(* found nothing, after the Step 2 lookup found nothing or its exchange    *)
(* was requested and failed, and (beta) after the Step 3 lookup found      *)
(* nothing or refresh_tokens was tried and failed, in this order.          *)
C1_LoginOnlyAfterLowerTiers ==
    \A c \in Callers :
        \A j \in 1..Len(trace[c]) :
            ( /\ trace[c][j] \in LoginRequests
              /\ \A i \in 1..(j - 1) : trace[c][i] \notin LoginRequests ) =>
                LET pre == SubSeq(trace[c], 1, j - 1)
                    t2 == IF Has(pre, "tier2_miss") THEN "tier2_miss" ELSE "tier2_hit"
                    t3 == IF Has(pre, "tier3_miss") THEN "tier3_miss" ELSE "tier3_hit"
                IN  /\ Has(pre, "tier1_miss")
                    /\ Has(pre, t2)
                    /\ First(pre, "tier1_miss") < First(pre, t2)
                    /\ t2 = "tier2_hit" =>
                         /\ Has(pre, "req_tier2_exchange")
                         /\ Has(pre, "tier2_failed")
                         /\ First(pre, t2) < First(pre, "req_tier2_exchange")
                         /\ First(pre, "req_tier2_exchange") < First(pre, "tier2_failed")
                    /\ Beta =>
                         /\ Has(pre, t3)
                         /\ First(pre, t2) < First(pre, t3)
                         /\ t3 = "tier3_hit" =>
                              /\ Has(pre, "tier3_failed")
                              /\ First(pre, t3) < First(pre, "tier3_failed")

(* a call that found a valid identity token, tried the exchange and went   *)
(* on to the credential submission                                         *)
C1_Witness ==
    \E c \in Callers :
        /\ Has(trace[c], "tier2_hit")
        /\ Has(trace[c], "req_tier2_exchange")
        /\ Has(trace[c], "req_login")

(* C2 as claimed: every failure of a Step 2 or Step 3 partial refresh,     *)
(* an exception raised by the exchange request included, is non-fatal; a   *)
(* call ends with an error only when the login flow failed (or the token   *)
(* store did).                                                             *)
C2_PartialRefreshFailureNonFatal ==
    \A c \in Callers :
        (pc[c] = "failed" /\ err[c] # "sqlite3.Error") => Has(trace[c], "flow_failed")

(* C3: no request of the login flow writes the table; when the flow ends   *)
(* in failure the call has stored nothing and the table is as it was; a    *)
(* call that entered the flow writes only in login, after the system-token *)
(* mint, a dict with an identity token and a system token.                 *)
C3_FailedFlowStoresNothing ==
    [][ \A c \in Callers :
          /\ (pc[c] \in LoginFlowPcs /\ pc'[c] # pc[c]) => UNCHANGED <<tokens, written>>
          /\ (pc'[c] \in {"failed", "exited"} /\ pc[c] \in LoginFlowPcs) =>
                 /\ ~Has(trace'[c], "store_tokens")
                 /\ tokens' = tokens
          /\ (written' # written /\ written'.by = c /\ InFlow(trace[c])) =>
                 /\ pc[c] = "login_store"
                 /\ Has(trace[c], "req_login_mint")
                 /\ Truthy(Get(written'.data, "auth_token"))
                 /\ Truthy(Get(written'.data, "system_token"))
      ]_vars

(* the second interaction step yields no token material while the table    *)
(* holds an earlier row, and the call has failed                           *)
C3_Witness ==
    \E c \in Callers :
        /\ pc[c] = "failed"
        /\ Has(trace[c], "flow_failed")
        /\ trace[c][Len(trace[c]) - 1] = "req_interaction2"
        /\ RowsOf(tokens, SystemId) # {}

(* C4: with a row whose system_token_expiry is after now, Step 1 returns   *)
(* (unless the read itself fails) with no request issued and no write, and *)
(* the returned dict holds the row's system id, identity token, access     *)
(* token, system token, nonce and (beta) refresh token.                    *)
C4_ValidSystemTokenIsReused ==
    [][ \A c \in Callers :
          LET valid == {r \in RowsOf(tokens, SystemId) :
                           Col(r, "system_token_expiry") > now}
          IN  (pc[c] = "t1" /\ pc'[c] # "t1" /\ valid # {}) =>
                 /\ UNCHANGED <<tokens, written>>
                 /\ \/ pc'[c] = "failed" /\ err'[c] = "sqlite3.Error"
                    \/ /\ pc'[c] = "done"
                       /\ trace'[c] = <<"tier1_hit">>
                       /\ \E r \in valid :
                            /\ result'[c]["current_system_id"] = Col(r, "system_id")
                            /\ result'[c]["auth_token"] = Col(r, "auth_token")
                            /\ result'[c]["access_token"] = Col(r, "access_token")
                            /\ result'[c]["system_token"] = Col(r, "system_token")
                            /\ result'[c]["auth_nonce"] = Col(r, "auth_nonce")
                            /\ Beta => result'[c]["refresh_token"] = Col(r, "refresh_token")
      ]_vars

(* a call returned from Step 1 the row a login wrote *)
C4_Witness ==
    \E c \in Callers :
        /\ pc[c] = "done"
        /\ trace[c] = <<"tier1_hit">>
        /\ result[c]["system_token"] # NULL
        /\ \E r \in RowsOf(tokens, SystemId) :
             Col(r, "auth_nonce") # NULL \/ (Beta /\ Col(r, "refresh_token") # NULL)

(* C5: a call whose three lookups found nothing valid issues each request  *)
(* of the login flow at most once and, once ended, has entered the flow    *)
(* exactly once; when it returns, its one store_tokens wrote the dict the  *)
(* flow produced, the row of the account holds that dict and the call      *)
(* returned it.                                                            *)
C5_LoginRunsOnceAndPersists ==
    \A c \in Callers :
        ( /\ Has(trace[c], "tier1_miss")
          /\ Has(trace[c], "tier2_miss")
          /\ Beta => Has(trace[c], "tier3_miss") ) =>
            /\ \A e \in LoginRequests : Count(trace[c], e) <= 1
            /\ Ended(c) =>
                 Count(trace[c], IF Beta THEN "req_initial_profile" ELSE "req_login") = 1
            /\ pc[c] = "done" =>
                 /\ Has(trace[c], "req_login_mint")
                 /\ Count(trace[c], "store_tokens") = 1
                 /\ trace[c][Len(trace[c])] = "store_tokens"
                 /\ written # NoWrite
                 /\ written.by = c
                 /\ written.data = result[c]
                 /\ Truthy(result[c]["auth_token"])
                 /\ Truthy(result[c]["system_token"])
                 /\ Cardinality(RowsOf(tokens, SystemId)) = 1
                 /\ \A r \in RowsOf(tokens, SystemId) : RowHolds(r, result[c], written.at)

(* a call found nothing valid over an expired row, logged in and returned *)
C5_Witness ==
    \E c \in Callers :
        /\ pc[c] = "done"
        /\ Has(trace[c], "tier1_miss")
        /\ Has(trace[c], "tier2_miss")
        /\ Beta => Has(trace[c], "tier3_miss")
        /\ Has(trace[c], "req_login_mint")
        /\ written # NoWrite
        /\ written.replaced # {}

(* C6 as claimed: a database error in any store operation of a call ends   *)
(* the call with that error at once: nothing follows the failed operation  *)
(* in the call, no later step and no further request.                      *)
C6_StoreFailureIsFatal ==
    \A c \in Callers :
        Has(trace[c], "db_error") =>
            /\ pc[c] = "failed"
            /\ err[c] = "sqlite3.Error"
            /\ trace[c][Len(trace[c])] = "db_error"

(* C7 as claimed: the row a successful Step 2 writes keeps the access      *)
(* token, the nonce and (beta) the refresh token of the row it replaces.   *)
C7_Tier2KeepsOtherCredentials ==
    [][ \A c \in Callers :
          (pc[c] = "t2_store" /\ written' # written /\ written'.by = c) =>
              \A old \in written'.replaced :
                  \A r \in RowsOf(tokens', SystemId) :
                      /\ Col(r, "auth_token") = Col(old, "auth_token")
                      /\ Col(r, "access_token") = Col(old, "access_token")
                      /\ Col(r, "auth_nonce") = Col(old, "auth_nonce")
                      /\ Beta => Col(r, "refresh_token") = Col(old, "refresh_token")
      ]_vars

(* C8 as claimed: when a row is replaced by one that holds the same        *)
(* identity, system or refresh token, the expiry stored for that token is  *)
(* not later than it was.                                                  *)
C8_ExpiryNeverSlides ==
    [][ \A old \in tokens : \A new \in tokens' :
          old[1] = new[1] =>
            /\ (Truthy(Col(new, "auth_token"))
                /\ Col(new, "auth_token") = Col(old, "auth_token")) =>
                   Col(new, "auth_token_expiry") <= Col(old, "auth_token_expiry")
            /\ (Truthy(Col(new, "system_token"))
                /\ Col(new, "system_token") = Col(old, "system_token")) =>
                   Col(new, "system_token_expiry") <= Col(old, "system_token_expiry")
            /\ (Beta /\ Truthy(Col(new, "refresh_token"))
                /\ Col(new, "refresh_token") = Col(old, "refresh_token")) =>
                   Col(new, "refresh_token_expiry") <= Col(old, "refresh_token_expiry")
      ]_vars

(* the rows store_tokens can write at time T *)
StoredRows(T) ==
    { NewRow(auth_data, T) :
        auth_data \in UNION { StoreInputs(c, system_id, T) :
                                c \in Callers, system_id \in Accounts } }

(* C11 as claimed: among the rows store_tokens writes there is one, and a  *)
(* time, at which the row is read as holding a valid system token while    *)
(* the read of its identity token returns nothing, and one, and a time, at *)
(* which the identity token is read as valid while the system token is not.*)
C11_ExpiriesIndependent ==
    /\ \E T \in 0..MaxMinutes : \E r \in StoredRows(T) : \E t \in ProbeTimes(T) :
          /\ TM_get_valid_tokens({r}, r[1], t) # NULL
          /\ TM_get_valid_auth_token({r}, r[1], t) = NULL
    /\ \E T \in 0..MaxMinutes : \E r \in StoredRows(T) : \E t \in ProbeTimes(T) :
          /\ TM_get_valid_auth_token({r}, r[1], t) # NULL
          /\ TM_get_valid_tokens({r}, r[1], t) = NULL

(* C12 as claimed: a call whose credential submission was answered 429 has *)
(* ended with an error raised to its caller, the submission is the last    *)
(* request of the call and its only credential submission, and the call    *)
(* has stored nothing.                                                     *)
C12_RateLimitIsReportedFailure ==
    \A c \in Callers :
        Has(trace[c], "rate_limited") =>
            /\ pc[c] = "failed"
            /\ err[c] = "Exception"
            /\ Count(trace[c], "req_login") = 1
            /\ \A i \in 1..Len(trace[c]) :
                 (i > First(trace[c], "req_login")) => trace[c][i] \notin LoginRequests
            /\ ~Has(trace[c], "store_tokens")

(* C13 as claimed: a request of the login flow that was answered with an   *)
(* unexpected status, or without the redirect or token material it should  *)
(* carry, is the last request of the flow: after a profile fetch answered   *)
(* with a status that is no success, the call issues no further request.    *)
C13_UnexpectedResponseEndsFlow ==
    [][ \A c \in Callers :
          ( /\ pc[c] = "pl_authorize"
            /\ loc[c].profile_status \notin 200..299 ) =>
              \A i \in 1..Len(trace'[c]) :
                  i > Len(trace[c]) => trace'[c][i] \notin LoginRequests
      ]_vars

(* the requests of the login flow in a call's trace, in the order issued *)
FlowRequests(tr) == SelectSeq(tr, LAMBDA e : e \in LoginRequests)

FlowOrder ==
    <<"req_login", "req_profile", "req_authorize", "req_interaction1",
      "req_interaction2", "req_login_mint">>

(* C14 as claimed: the requests a call's login flow has issued are, in     *)
(* order, an initial part of: credential submission, profile fetch,        *)
(* authorize, interaction step 1, interaction step 2, system-token mint;   *)
(* so the submission comes first and no request is issued twice.           *)
C14_FlowRequestsInFixedOrder ==
    \A c \in Callers :
        LET rs == FlowRequests(trace[c])
        IN  /\ Len(rs) <= Len(FlowOrder)
            /\ rs = SubSeq(FlowOrder, 1, Len(rs))

(* C15 as claimed: when login stores and returns the set of a successful   *)
(* flow, the flow has sent a nonce with its authorize request, the         *)
(* returned set carries that nonce with the account id, the identity token *)
(* and the system token, and the row written holds that nonce.             *)
C15_LoginCarriesItsNonce ==
    [][ \A c \in Callers :
          (pc[c] = "login_store" /\ pc'[c] = "done") =>
              /\ Truthy(loc[c].auth_nonce)
              /\ Get(result'[c], "auth_nonce") = loc[c].auth_nonce
              /\ result'[c]["current_system_id"] = SystemId
              /\ Truthy(result'[c]["auth_token"])
              /\ Truthy(result'[c]["system_token"])
              /\ \A r \in RowsOf(tokens', SystemId) :
                   Col(r, "auth_nonce") = loc[c].auth_nonce
      ]_vars

C17_ResponseClassification ==
    (Has(api.events, "resource_request") /\ api.phase = "ready") =>
        /\ api.status \in 200..299 => api.outcome = "returned"
        /\ api.status \in 400..599 => api.outcome = "raised"

(* C18: the step that receives a 4xx or 5xx answer of the resource request *)
(* raises and ends the invocation: get_valid_tokens was called once and    *)
(* one request sent, the token store is not written, and the process is    *)
(* idle until a new invocation begins.                                     *)
C18_FailedRequestIsNotRetried ==
    [][ (api'.events # api.events /\ Has(api'.events, "resource_request")
         /\ api'.status \notin 200..299) =>
            /\ api'.outcome = "raised"
            /\ Count(api'.events, "get_valid_tokens") = 1
            /\ Count(api'.events, "resource_request") = 1
            /\ UNCHANGED <<tokens, written>>
            /\ pc'[ApiCaller] = "idle"
            /\ api'.phase = "ready"
      ]_vars

(* a resource request was answered 404 over a store that holds a row *)
C18_Witness ==
    /\ api.status = 404
    /\ api.outcome = "raised"
    /\ pc[ApiCaller] = "idle"
    /\ RowsOf(tokens, SystemId) # {}

(* C19 as claimed: when get_valid_tokens ends with a fatal error inside an *)
(* invocation or inside the constructor, no resource request is sent and   *)
(* an error is raised to the caller; the constructor also raises when the  *)
(* returned set has no system token, and no object is had.                 *)
C19_FatalErrorAbortsCall ==
    [][ /\ (pc[ApiCaller] \in {"failed", "exited"} /\ api' # api) =>
              /\ ~Has(api'.events, "resource_request")
              /\ api'.outcome = "raised"
              /\ api.phase = "init" => api'.phase = "new"
        /\ (api.phase = "init" /\ api'.phase = "ready") =>
              /\ pc[ApiCaller] = "done"
              /\ Truthy(Get(result[ApiCaller], "system_token"))
      ]_vars

(* the caller whose session the identity token of row r was issued to *)
IssuedTo(r) == Col(r, "auth_token")[2]

(* call c has run the full login and its store replaced a row that another *)
(* caller wrote and whose system token was still valid                     *)
DuplicateLogin(c) ==
    /\ pc[c] = "done"
    /\ Has(trace[c], "req_login_mint")
    /\ written # NoWrite
    /\ written.by = c
    /\ \E old \in written.replaced :
         /\ IssuedTo(old) # c
         /\ Col(old, "system_token_expiry") > written.at

(* C20: nothing makes concurrent callers wait for each other.  A call that *)
(* logged in beside another caller's login had found no valid system token *)
(* at its Step 1, ran the flow itself and made its own upsert: the one row *)
(* of the account is the set it stored, replacing the other caller's row.  *)
C20_ConcurrentLoginsEachUpsert ==
    \A c \in Callers :
        DuplicateLogin(c) =>
            /\ Has(trace[c], "tier1_miss")
            /\ Count(trace[c], "req_login") = 1
            /\ Count(trace[c], "store_tokens") = 1
            /\ Cardinality(RowsOf(tokens, SystemId)) = 1
            /\ \A r \in RowsOf(tokens, SystemId) :
                 /\ RowHolds(r, written.data, written.at)
                 /\ IssuedTo(r) = c

(* both callers found no valid token of any kind, both ran the full login, *)
(* and the second upsert replaced the row of the first while it was valid  *)
C20_Witness ==
    \E c \in Callers :
        /\ DuplicateLogin(c)
        /\ Has(trace[c], "tier1_miss")
        /\ Has(trace[c], "tier2_miss")
        /\ Beta => Has(trace[c], "tier3_miss")
        /\ \E old \in written.replaced :
             /\ Truthy(IF Beta THEN Col(old, "refresh_token") ELSE Col(old, "auth_nonce"))
             /\ Col(old, "last_updated") <= written.at

(* C21: in every state, whatever the interleaving of the callers, each     *)
(* account has at most one row, and the row of the account last written is *)
(* in every column what the last store_tokens call wrote: its dict, NULL   *)
(* for the keys the dict lacks, and the expiries of its time.              *)
C21_LastWriteWins ==
    /\ \A system_id \in Accounts : Cardinality(RowsOf(tokens, system_id)) <= 1
    /\ written # NoWrite =>
         LET rows == RowsOf(tokens, written.data["current_system_id"])
         IN  /\ Cardinality(rows) = 1
             /\ \A r \in rows :
                  /\ RowHolds(r, written.data, written.at)
                  /\ Col(r, "auth_token_expiry") = written.at + AuthTokenTTL
                  /\ Col(r, "system_token_expiry") = written.at + SystemTokenTTL
                  /\ Beta => Col(r, "refresh_token_expiry") = written.at + RefreshTokenTTL

(* all callers have finished, and the last write, a Step 2 store, replaced *)
(* the row another caller's login had written                              *)
C21_Witness ==
    /\ \A c \in Callers : pc[c] = "idle"
    /\ written # NoWrite
    /\ Get(written.data, "auth_nonce") = NULL
    /\ Get(written.data, "refresh_token") = NULL
    /\ \E old \in written.replaced :
         /\ IssuedTo(old) # written.by
         /\ Truthy(IF Beta THEN Col(old, "refresh_token") ELSE Col(old, "auth_nonce"))

(* every request get_valid_tokens can send *)
NetworkRequests ==
    LoginRequests \cup {"req_tier2_exchange", "req_refresh", "req_refresh_mint"}
NoNetwork(tr) == \A i \in 1..Len(tr) : tr[i] \notin NetworkRequests

(* C22, amended: in a single-threaded run with no other writer, when the   *)
(* last successful call returned the system token of the row store_tokens  *)
(* wrote at W, every later call running before W + 5 minutes sends no      *)
(* request (no login, no exchange, no refresh), writes nothing, and, when  *)
(* it returns, returns that same system token.                             *)
C22_ReusedUntilStoredExpiry ==
    ( /\ lastReturn # NoReturn
      /\ written # NoWrite
      /\ lastReturn.auth_data["system_token"] = written.data["system_token"]
      /\ written.at <= lastReturn.at
      /\ now < written.at + SystemTokenTTL
      /\ pc[SeqCaller] # "idle" )
    => /\ NoNetwork(trace[SeqCaller])
       /\ pc[SeqCaller] \in {"t1", "done", "failed"}
       /\ ~Has(trace[SeqCaller], "store_tokens")
       /\ pc[SeqCaller] = "done" =>
            result[SeqCaller]["system_token"] = lastReturn.auth_data["system_token"]

(* a later call has returned from Step 1, minutes after the write and after *)
(* the call before it, with the system token that call returned             *)
C22_Witness ==
    /\ lastReturn # NoReturn
    /\ written # NoWrite
    /\ written.at < lastReturn.at
    /\ lastReturn.at < now
    /\ now < written.at + SystemTokenTTL
    /\ pc[SeqCaller] = "done"
    /\ trace[SeqCaller] = <<"tier1_hit">>
    /\ result[SeqCaller]["system_token"] = lastReturn.auth_data["system_token"]

(* C22 as claimed: when a call succeeded at T, every later call running    *)
(* before T + 5 minutes sends no request and, when it returns, returns the *)
(* same system token.                                                      *)
C22_ReusedAfterAnySuccess ==
    ( /\ lastReturn # NoReturn
      /\ now < lastReturn.at + SystemTokenTTL
      /\ pc[SeqCaller] # "idle" )
    => /\ NoNetwork(trace[SeqCaller])
       /\ pc[SeqCaller] = "done" =>
            result[SeqCaller]["system_token"] = lastReturn.auth_data["system_token"]

(* what a production call does that finds nothing stored and logs in with  *)
(* every answer as the flow expects it                                     *)
ProdLoginTrace ==
    <<"tier1_miss", "tier2_miss", "req_login", "req_profile", "req_authorize",
      "req_interaction1", "req_interaction2", "req_login_mint", "store_tokens">>

(* C23: production, on an empty store, with login 200, profile, authorize  *)
(* 302 to .../interaction/abc123, interaction steps 302, the fragment      *)
(* id_token and access_token, and the mint answering a token to the bearer *)
(* id_token: the interaction requests are built with the id abc123;        *)
(* get_valid_tokens returns the fragment's identity token and access token *)
(* and the system token minted for that identity token; and the store      *)
(* holds exactly one row, that set, with system_token_expiry = the time of *)
(* the write + 5 minutes.                                                  *)
C23_EndToEndLogin ==
    \A c \in Callers :
      /\ ( /\ variant = "prod"
           /\ pc[c] \in {"pl_interaction1", "pl_interaction2"}
           /\ loc[c].interaction_id # "" )
         => loc[c].interaction_id = "abc123"
      /\ ( /\ variant = "prod"
           /\ pc[c] = "done"
           /\ trace[c] = ProdLoginTrace
           /\ written.replaced = {} )
         => /\ \E t \in 0..now :
                 /\ result[c]["auth_token"] = IdToken(c, t)
                 /\ result[c]["access_token"] \in {NULL, AccessToken(c, t)}
                 /\ \E u \in t..now :
                      result[c]["system_token"] = SysToken(IdToken(c, t), u)
            /\ written.at = now
            /\ Cardinality(tokens) = 1
            /\ \A r \in tokens :
                 /\ RowHolds(r, result[c], now)
                 /\ Col(r, "system_token_expiry") = now + SystemTokenTTL

(* the scenario has run: a production login on the empty store returned    *)
(* with both fragment tokens, some minutes after the start                 *)
C23_Witness ==
    /\ variant = "prod"
    /\ pc[SeqCaller] = "done"
    /\ trace[SeqCaller] = ProdLoginTrace
    /\ written.replaced = {}
    /\ now > 0
    /\ Truthy(result[SeqCaller]["access_token"])
    /\ Cardinality(tokens) = 1

(* C24 as claimed: of the answers the credential submission can get, every *)
(* 2xx status lets the flow advance to the profile fetch, 429 ends it as   *)
(* rate-limited, and every other status ends it as a failure.              *)
C24_Every2xxSubmissionAccepted ==
    \A resp \in LoginResponses :
        resp.kind = "resp" =>
            /\ resp.status \in 200..299 => SubmitOutcome(resp.status) = "continue"
            /\ resp.status \notin 200..299 => SubmitOutcome(resp.status) # "continue"

(* C25 as claimed: every device command call that passed its argument      *)
(* validation and returned has called get_valid_tokens within the call,    *)
(* before its request, and the request carried the system token that call  *)
(* returned.                                                               *)
C25_CommandsAreAuthenticated ==
    cmd.outcome \in {"True", "False"} =>
        /\ Has(cmd.events, "get_valid_tokens")
        /\ Has(cmd.events, "request") =>
             /\ First(cmd.events, "get_valid_tokens") < First(cmd.events, "request")
             /\ cmd.bearer = cmd.auth_data["system_token"]

(* C26: every stored row has auth_token_expiry = system_token_expiry, and  *)
(* in a single-threaded run with no other writer a call whose Step 1       *)
(* lookup found no valid system token finds no valid identity token in     *)
(* Step 2: the Step 2 lookup never hits, and the Step 2 exchange is never  *)
(* requested.                                                              *)
C26_Tier2DeadWhenSingleThreaded ==
    /\ \A r \in tokens : Col(r, "auth_token_expiry") = Col(r, "system_token_expiry")
    /\ pc[SeqCaller] = "t2" =>
         TM_get_valid_auth_token(tokens, SystemId, now) = NULL
    /\ pc[SeqCaller] \notin {"t2_exchange", "t2_store"}
    /\ ~Has(trace[SeqCaller], "tier2_hit")
    /\ ~Has(trace[SeqCaller], "req_tier2_exchange")

(* Step 1 and then Step 2 found nothing valid over a row that holds an     *)
(* identity token, written earlier by this program                         *)
C26_Witness ==
    /\ Has(trace[SeqCaller], "tier1_miss")
    /\ Has(trace[SeqCaller], "tier2_miss")
    /\ \E r \in RowsOf(tokens, SystemId) :
         /\ Truthy(Col(r, "auth_token"))
         /\ Col(r, "auth_token_expiry") <= now
         /\ Col(r, "auth_token_expiry") = Col(r, "system_token_expiry")

(* C27 as claimed: a call of get_valid_tokens that returned wrote the store *)
(* at most once: not at all when Step 1 answered, and exactly once when    *)
(* Step 2, Step 3 or the login answered.                                   *)
C27_OneWritePerSuccessfulCall ==
    \A c \in Callers :
        pc[c] = "done" =>
            Count(trace[c], "store_tokens") =
                (IF Has(trace[c], "tier1_hit") THEN 0 ELSE 1)

(* the credential keys of a returned dict *)
CredentialKeys ==
    {"auth_token", "access_token", "system_token", "refresh_token", "auth_nonce"}

(* C28: in a single-threaded run, when get_valid_tokens has returned a     *)
(* set, the account has one row, the row's identity token and system token *)
(* are those of the set, and every credential field the set has equals the *)
(* row's column of that name.                                              *)
C28_ReturnedSetIsStoredSet ==
    pc[SeqCaller] = "done" =>
        LET d == result[SeqCaller]
            rows == RowsOf(tokens, d["current_system_id"])
        IN  /\ Cardinality(rows) = 1
            /\ \A r \in rows :
                 /\ Col(r, "auth_token") = d["auth_token"]
                 /\ Col(r, "system_token") = d["system_token"]
                 /\ \A k \in (DOMAIN d) \cap CredentialKeys : Col(r, k) = d[k]

(* a call returned from Step 1 a row with a nonce (production) or a        *)
(* refresh token (beta), a row whose write had replaced an earlier one     *)
C28_Witness ==
    /\ pc[SeqCaller] = "done"
    /\ trace[SeqCaller] = <<"tier1_hit">>
    /\ Truthy(IF Beta THEN result[SeqCaller]["refresh_token"]
                      ELSE result[SeqCaller]["auth_nonce"])
    /\ written.replaced # {}

(* C29 as claimed (beta): a write of get_valid_tokens that replaces a row  *)
(* holding a refresh token stores a refresh token too.                     *)
C29_RefreshTokenSurvivesWrites ==
    (Beta /\ written # NoWrite) =>
        \A old \in written.replaced :
            Truthy(Col(old, "refresh_token")) =>
                Truthy(Get(written.data, "refresh_token"))

(* C30: in every stored row the identity token and the system token are    *)
(* not null and belong together: the system token is one the platform      *)
(* issued to a request whose bearer was exactly the row's identity token,  *)
(* whether Step 2, Step 3 or the login wrote the row.                      *)
C30_StoredTokensBelongTogether ==
    \A r \in tokens :
        /\ Truthy(Col(r, "auth_token"))
        /\ Truthy(Col(r, "system_token"))
        /\ Col(r, "system_token") \in
             { SysToken(Col(r, "auth_token"), t) :
                 t \in IssuedAt(Col(r, "auth_token"))..now }

(* Step 2 of one caller wrote the row: a system token newer than the       *)
(* identity token it was obtained with, which the other caller's login had *)
(* stored                                                                  *)
C30_Witness ==
    /\ written # NoWrite
    /\ written.replaced # {}
    /\ \E r \in RowsOf(tokens, SystemId) :
         /\ IssuedTo(r) # written.by
         /\ IssuedAt(Col(r, "system_token")) > IssuedAt(Col(r, "auth_token"))

(* C31 as claimed: an initialize call that returned either found a valid   *)
(* system token, sent nothing, wrote nothing and returned a dict whose     *)
(* five fields are the row's columns of the same names; or found none, ran *)
(* the login flow once, with no Step 2 or Step 3 exchange, and returned    *)
(* the set the login stored.                                               *)
C31_InitializeTwoPaths ==
    \A c \in {SeqCaller} :
        (pc[c] = "done" /\ trace[c] # <<>> /\ trace[c][1] \in {"init_hit", "init_miss"}) =>
            LET d == result[c]
                rows == RowsOf(tokens, SystemId)
            IN  /\ Cardinality(rows) = 1
                /\ ~Has(trace[c], "req_tier2_exchange")
                /\ ~Has(trace[c], "req_refresh")
                /\ IF trace[c][1] = "init_hit"
                   THEN /\ trace[c] = <<"init_hit">>
                        /\ \A r \in rows :
                             /\ d["current_system_id"] = Col(r, "system_id")
                             /\ d["auth_token"] = Col(r, "auth_token")
                             /\ d["access_token"] = Col(r, "access_token")
                             /\ d["system_token"] = Col(r, "system_token")
                             /\ d["auth_nonce"] = Col(r, "auth_nonce")
                   ELSE /\ Count(trace[c], "req_login") = 1
                        /\ Count(trace[c], "store_tokens") = 1
                        /\ \A r \in rows : RowHolds(r, d, written.at)

(* C32 as claimed: the interaction id with which interaction step 1 is     *)
(* requested is not empty, and interaction step 2 is requested with the    *)
(* same id.                                                                *)
C32_InteractionIdNeverEmpty ==
    [][ \A c \in Callers :
          /\ (pc[c] = "pl_interaction1" /\ pc'[c] # "pl_interaction1") =>
                /\ loc[c].interaction_id # ""
                /\ pc'[c] = "pl_interaction2" =>
                     loc'[c].interaction_id = loc[c].interaction_id
          /\ (pc[c] = "pl_interaction2" /\ pc'[c] # "pl_interaction2") =>
                loc[c].interaction_id # ""
      ]_vars

(* the outbound requests a call has sent so far *)
RequestsSent(tr) == Cardinality({i \in 1..Len(tr) : tr[i] \in NetworkRequests})
RequestLimit == IF Beta THEN 12 ELSE 7

C34_ControlReturnsRemoteVerdict ==
    ( /\ cmd.endpoint = "PDKDeviceControlEndpoint"
      /\ cmd.outcome \in {"True", "False"} )
    => (cmd.outcome = "True" <=> cmd.remote = "success")

(* the step ends a device command call: the call has an outcome, and the   *)
(* step set it                                                             *)
CommandCallEnds ==
    /\ cmd'.command # ""
    /\ cmd'.outcome # ""
    /\ (cmd' # cmd \/ gate_activity' # gate_activity)

ActionOf(command) == IF command = "try_open_device" THEN "OPEN" ELSE "CLOSE"

(* the call that ends in this step appended exactly one row, as its last   *)
(* act, with the command's action and the status of the value it returns   *)
AppendsItsRow ==
    /\ Len(gate_activity') = Len(gate_activity) + 1
    /\ SubSeq(gate_activity', 1, Len(gate_activity)) = gate_activity
    /\ cmd'.events # <<>>
    /\ cmd'.events[Len(cmd'.events)] = "log_activity"
    /\ Count(cmd'.events, "log_activity") = 1
    /\ LET row == gate_activity'[Len(gate_activity')]
       IN  /\ row.action = ActionOf(cmd'.command)
           /\ row.status = "SUCCESS" <=> cmd'.outcome = "True"
           /\ row.status = "FAILED" <=> cmd'.outcome = "False"

(* no step modifies or removes a row of gate_activity                      *)
AppendOnly ==
    /\ Len(gate_activity') >= Len(gate_activity)
    /\ SubSeq(gate_activity', 1, Len(gate_activity)) = gate_activity

(* C35 as claimed: every device command call that passes argument          *)
(* validation (and whose activity database accepts the write) appends      *)
(* exactly one row to gate_activity, after the request attempt, with the   *)
(* action of the command and status SUCCESS exactly when it returns True,  *)
(* FAILED exactly when it returns False; and no step modifies or removes   *)
(* an earlier row.                                                         *)
C35_OneActivityRowPerCommand ==
    [][ /\ AppendOnly
        /\ ( CommandCallEnds /\ cmd'.err \notin {"ValueError", "sqlite3.Error"} )
           => AppendsItsRow ]_vars

(* C36: a try_open_device call with a dwell outside 1..5400 raises         *)
(* ValueError before anything else happens: no request, no authentication  *)
(* step, no activity row (trace and gate_activity unchanged); a call with  *)
(* dwell absent or within 1..5400 raises no ValueError, and the body built *)
(* for its request holds the dwell when one was given, nothing otherwise.  *)
C36_DwellValidatedBeforeAnyEffect ==
    [][ ( CommandCallEnds /\ cmd'.command = "try_open_device" )
        => IF cmd'.dwell # NULL /\ cmd'.dwell[1] \notin 1..5400
           THEN /\ cmd'.outcome = "raised"
                /\ cmd'.err = "ValueError"
                /\ cmd'.events = <<>>
                /\ cmd'.body = NULL
                /\ UNCHANGED <<gate_activity, trace, pc, tokens>>
           ELSE /\ cmd'.err # "ValueError"
                /\ cmd'.body = IF cmd'.dwell = NULL
                               THEN <<>>
                               ELSE [dwell |-> cmd'.dwell[1]] ]_vars

(* a call with dwell 0 was refused after a call with dwell 5400 had been   *)
(* accepted and logged                                                     *)
C36_Witness ==
    /\ cmd.command = "try_open_device"
    /\ cmd.dwell = Dwell(0)
    /\ cmd.err = "ValueError"
    /\ Len(gate_activity) = 1
    /\ gate_activity[1].response.dwell = "5400"

(* C37 as claimed: fetch_collection sends its request again when it        *)
(* failed, up to 5 requests in all, and produces the failure result (None, *)
(* logged as failed after retries) only once the 5 attempts are used up;   *)
(* compare_collections saves nothing when the fetch failed.                *)
C37_FetchRetriedUntilExhausted ==
    [][ /\ postman'.requests <= max_tries
        /\ Has(postman'.log, FailedMsg) => postman'.requests = max_tries
        /\ (postman.phase = "fetched" /\ postman.current_data = NULL)
           => collections' = collections ]_vars

(* the ids a received list names, and the last entry it has for an id *)
IdsOf(items) == {items[i].id : i \in 1..Len(items)}
LastOf(items, id) ==
    items[CHOOSE i \in 1..Len(items) :
            items[i].id = id /\ \A j \in (i + 1)..Len(items) : items[j].id # id]

(* table T became T2 by an upsert of the received items at time t: one row *)
(* per returned id, holding the values returned for it, and every row of   *)
(* another id as it was                                                    *)
UpsertedById(T, T2, items, t) ==
    /\ \A id \in IdsOf(items) :
         /\ Cardinality({r \in T2 : r.id = id}) = 1
         /\ \A r \in T2 : r.id = id =>
              /\ r.name = LastOf(items, id).name
              /\ r.last_updated = t
    /\ \A r \in T : r.id \notin IdsOf(items) => r \in T2
    /\ \A r \in T2 : r.id \notin IdsOf(items) => r \in T

(* C38: a listing call that received a list and returned leaves its table  *)
(* upserted by id (one row per returned id with the returned values; rows  *)
(* of other ids, stale ones included, untouched); a call that ended in any *)
(* other way (a database error in the middle of the batch, a result that   *)
(* is no list, a failed request or authentication) leaves the table as it  *)
(* was; the other table is never touched.                                  *)
C38_CacheUpsertedAtomically ==
    [][ (lister.phase = "call" /\ lister'.phase # "call")
        => /\ lister.endpoint = "PDKEndpoint" => devices' = devices
           /\ lister.endpoint = "PDKDeviceEndpoint" => cloud_nodes' = cloud_nodes
           /\ LET T == IF lister.endpoint = "PDKEndpoint" THEN cloud_nodes ELSE devices
                  T2 == IF lister.endpoint = "PDKEndpoint" THEN cloud_nodes' ELSE devices'
              IN  IF lister'.outcome = "returned" /\ lister'.received.type = "list"
                  THEN /\ UpsertedById(T, T2, lister'.received.items, now)
                       /\ lister.endpoint = "PDKDeviceEndpoint" =>
                            \A r \in T2 : r.id \in IdsOf(lister'.received.items)
                                          => r.cloud_node_id = lister'.cloud_node_id
                  ELSE T2 = T ]_vars

(* a second listing replaced the row of n1 and left the row of n2, which   *)
(* it did not name, as the first listing had written it                    *)
C38_Witness ==
    /\ lister.endpoint = "PDKEndpoint"
    /\ lister.outcome = "returned"
    /\ lister.received = ListBody(<<Item("n1", "a")>>)
    /\ \E r1, r2 \in cloud_nodes :
         /\ r1.id = "n1" /\ r1.name = "a" /\ r1.last_updated = now
         /\ r2.id = "n2" /\ r2.last_updated < now

====
